---- MODULE Spec2Model ----
(***************************************************************************)
(* Verification model of storehaus: the Store Engine (GenericStore: CRUD,  *)
(* batch updates in a transaction, cache-aside reads and invalidation,     *)
(* event hand-off) and the Signal Bus (SignalManager: callback registry    *)
(* behind a RwLock, emit with snapshot / await / fold phases) and the       *)
(* Query Builder (SqlGenerator: WHERE / HAVING clauses with placeholders). *)
(*                                                                         *)
(* SpecStore  : one caller of a GenericStore<T> against a table and a      *)
(*              Redis cache.                                               *)
(* SpecSignal : tasks calling one SignalManager concurrently.              *)
(* SpecQuery  : the Query Builder compiling filter trees.                  *)
(* SpecUpdateWhere : update_where assembling its UPDATE statement.         *)
(* SpecRead   : a caller that only reads, get_by_id alone or twice.        *)
(* SpecExecutor : the _with_executor variants on the pool or a transaction.*)
(* SpecCreate : a caller of create, with and without explicit tags.        *)
(* SpecWhere  : delete_where on tables with and without a primary key.     *)
(* SpecSubscriber : update with a callback that reads during the event.    *)
(* SpecNotify : create, update and delete together with the Signal Bus.    *)
(* SpecShutdown : a SignalManager from new to shutdown.                    *)
(* SpecSweep  : registrations, emits and the cleanup sweep on a clock.     *)
(* SpecTimeout : one emit whose callbacks run in turn on a clock.          *)
(* SpecFind   : a caller who deletes rows and lists the table.             *)
(* SpecConcurrent : update and a second task's get_by_id, interleaved.     *)
(* SpecUpdateBind : update_where choosing its SET clause and its values.   *)
(***************************************************************************)
EXTENDS Integers, Sequences, FiniteSets, TLC

VARIABLES
    \* ---- Store Engine ----
    idType,       \* T::Id of the record type: "int", "uuid" or "string"
    hasPk,        \* !T::primary_key_field().is_empty()
    reader,       \* a second task's get_by_id call: its position between its awaits,
                  \* its id and the row it has fetched
    softDelete,   \* T::supports_soft_delete()
    hasSignals,   \* GenericStore.signal_manager.is_some()
    hasCache,     \* GenericStore.cache_params.is_some()
    db,           \* committed rows of the table: id -> [val, active]
    tx,           \* rows as seen inside the open transaction (dropped = rolled back)
    cache,        \* Redis: key -> cached value
    pc,           \* position of the caller's current Store Engine call
    op,           \* the call in progress or just returned: its name, its arguments
                  \* and (pre) the keys the cache held when it was issued
    acc,          \* update_many: all_updated_data gathered so far
    ret,          \* value returned by the call
    emitted,      \* events the call has handed to emit_signal, in order
    \* ---- Signal Bus ----
    config,       \* SignalManager.config (SignalConfig)
    callbacks,    \* SignalManager.callbacks: CallbackId -> CallbackMeta
    next_id,      \* SignalManager.next_id
    lock,         \* holder of the write side of the callbacks RwLock
    epc,          \* position of each emit task
    futs,         \* emit: callback_futures, the snapshot as (id, state of the future)
    results,      \* emit: results gathered so far, as (id, outcome)
    foldAt,       \* emit: index of the next result the fold loop handles
    to_remove,    \* emit: ids_to_remove
    emitsLeft,    \* emits the environment may still start
    add_ret,      \* what the last add_callback call returned: "none", "ok" or "err"
    cleanup_handle, \* SignalManager.cleanup_handle: "unset" (None, the task of new that
                  \* stores it has not run), "Some", or "taken" (None after take())
    cleanup_task, \* the task running cleanup_loop: "running" or "aborted"
    spc,          \* position of the shutdown call: "idle", "cleared" or "returned"
    error_handler, \* SignalManager.error_handler is Some(handler)
    now,          \* std::time::Instant::now(), in ticks of half the sweep's 24 hours
    handled,      \* per emit task: the errors its fold has passed to the handler
    \* ---- Query Builder ----
    filters,      \* the QueryFilter values handed to a QueryBuilder, in order
    built,        \* what the last build / statement construction returned
    \* ---- history kept for stating the properties ----
    hist,         \* per registered callback: has each folded result been a failure, in order
    born,         \* per registered callback: emitsLeft when it was registered
    snapLeft      \* per emit task: emitsLeft right after its last snapshot

storeVars == <<idType, hasPk, reader, softDelete, hasSignals, hasCache, db, tx, cache, pc, op, acc, ret, emitted>>
sigVars   == <<config, callbacks, next_id, lock, epc, futs, results, foldAt, to_remove,
               emitsLeft, add_ret, cleanup_handle, cleanup_task, spc,
               error_handler, handled, now, hist, born, snapLeft>>
qbVars    == <<filters, built>>
vars      == <<storeVars, sigVars, qbVars>>

(***************************************************************************)
(* Bounds of the model.                                                    *)
(***************************************************************************)
MaxBatch == 2      \* longest update_many / delete_many batch
MaxEmits == 2      \* emits started in one behaviour
MaxIds   == 2      \* callback ids handed out in one behaviour
MaxCallbacks == 2  \* largest config.max_callbacks
MaxFailLimit == 2  \* largest config.max_consecutive_failures

(***************************************************************************)
(* Generic helpers.                                                        *)
(***************************************************************************)
Range(s) == {s[i] : i \in 1..Len(s)}

SeqsUpTo(S, n) == UNION {[1..k -> S] : k \in 0..n}

Restrict(f, S) == [x \in S |-> f[x]]

Put(f, k, v) == [x \in DOMAIN f \cup {k} |-> IF x = k THEN v ELSE f[x]]

(***************************************************************************)
(* Primary keys and their renderings.  Text is a sequence of characters.   *)
(***************************************************************************)
IdTypes == {"int", "uuid", "string"}

IntIds  == {7, 12}
UuidIds == {[i \in 1..16 |-> IF i = 16 THEN 171 ELSE 0],
            [i \in 1..16 |-> IF i = 1 THEN 16 ELSE 0]}
StrIds  == {<<"a">>, <<"b", "c">>}

IdsOf(t) == CASE t = "int"    -> IntIds
              [] t = "uuid"   -> UuidIds
              [] t = "string" -> StrIds

DigitChar == <<"0", "1", "2", "3", "4", "5", "6", "7", "8", "9",
               "a", "b", "c", "d", "e", "f">>

\* write!(buffer, "{}", n) and write!(buffer, "{:?}", n) of an integer
RECURSIVE Dec(_)
Dec(n) == IF n < 0 THEN <<"-">> \o Dec(0 - n)
          ELSE IF n < 10 THEN <<DigitChar[n + 1]>>
          ELSE Dec(n \div 10) \o <<DigitChar[(n % 10) + 1]>>

\* two lower-case hex digits of one byte
HexByte(b) == <<DigitChar[(b \div 16) + 1], DigitChar[(b % 16) + 1]>>

RECURSIVE HexBytes(_)
HexBytes(bs) == IF bs = <<>> THEN <<>> ELSE HexByte(Head(bs)) \o HexBytes(Tail(bs))

\* Uuid as text: Display and Debug both print the lower-case hyphenated form
Hyphenated(u) ==
    HexBytes(SubSeq(u, 1, 4)) \o <<"-">> \o HexBytes(SubSeq(u, 5, 6)) \o <<"-">> \o
    HexBytes(SubSeq(u, 7, 8)) \o <<"-">> \o HexBytes(SubSeq(u, 9, 10)) \o <<"-">> \o
    HexBytes(SubSeq(u, 11, 16))

\* {:?} of a String: quoted, with quotes and backslashes escaped
RECURSIVE EscapeDebug(_)
EscapeDebug(s) ==
    IF s = <<>> THEN <<>>
    ELSE (IF Head(s) \in {"\"", "\\"} THEN <<"\\", Head(s)>> ELSE <<Head(s)>>)
         \o EscapeDebug(Tail(s))

\* id_to_string(id) = id.universal_id().to_string_fast()
to_string_fast(t, id) ==
    CASE t = "int"    -> Dec(id)
      [] t = "uuid"   -> Hyphenated(id)
      [] t = "string" -> id

\* write!(id_buffer, "{:?}", id) in get_by_id
debug_fmt(t, id) ==
    CASE t = "int"    -> Dec(id)
      [] t = "uuid"   -> Hyphenated(id)
      [] t = "string" -> <<"\"">> \o EscapeDebug(id) \o <<"\"">>

(***************************************************************************)
(* Cache keys (CacheManager).                                              *)
(***************************************************************************)
Prefix == "app"
Table  == "users"

build_record_key(idText) == <<Prefix, ":", Table, ":", "record", ":">> \o idText
build_query_key(hash)    == <<Prefix, ":", Table, ":", "query", ":", hash>>

\* keys matched by the pattern "{prefix}:{table}:query:*"
MatchesQueryPattern(k) ==
    /\ Len(k) >= 6
    /\ SubSeq(k, 1, 6) = <<Prefix, ":", Table, ":", "query", ":">>

QueryHashes == {"q1", "q2"}

QueryKeys(c) == {k \in DOMAIN c : MatchesQueryPattern(k)}

\* the key under which get_by_id looks a record up and stores it
ReadKey(id)  == build_record_key(debug_fmt(idType, id))
\* the key update / update_where delete
WriteKey(id) == build_record_key(to_string_fast(idType, id))

(***************************************************************************)
(* Rows, records and calls.                                                *)
(***************************************************************************)
Vals    == {"v1", "v2"}      \* column values the backend accepts
BadVal  == "bad"             \* a value violating a backend constraint
InVals  == Vals \cup {BadVal}

Ids == IdsOf(idType)

\* the model type T as returned by sqlx (FromRow)
Rec(id, row) == [id |-> id, val |-> row.val, active |-> row.active]

RowOf(d, id) == IF id \in DOMAIN d THEN <<Rec(id, d[id])>> ELSE <<>>

\* StoreObject::count ("SELECT COUNT(*) as total FROM t") and
\* SoftDeletable::count_active ("SELECT COUNT(*) as active FROM t WHERE f = true")
count(d) == Cardinality(DOMAIN d)
count_active(d) == Cardinality({id \in DOMAIN d : d[id].active})

\* a query is abstracted to its row predicate
Queries == {[field |-> "all", value |-> "v1"]}
           \cup {[field |-> "val", value |-> v] : v \in Vals}

Matches(q, row) == q.field = "all" \/ (q.field = "val" /\ row.val = q.value)

NoOp  == [name |-> "none", pre |-> {}]
\* the second task is not inside get_by_id
NoReader == [pc |-> "idle", id |-> <<>>, found |-> <<>>, ok |-> TRUE]
NoRet == [ok |-> TRUE, err |-> "", recs |-> <<>>, ids |-> <<>>, flag |-> FALSE,
          cacheErr |-> FALSE]

Built(kind, k, w, h, sql, values, n) ==
    [kind |-> kind, nwhere |-> k, where_clause |-> w.sql, where_values |-> w.values,
     having_clause |-> h.sql, having_values |-> h.values,
     sql |-> sql, values |-> values, num_update_params |-> n]
NoClause == [sql |-> <<>>, values |-> <<>>]
NoBuilt == Built("none", 0, NoClause, NoClause, <<>>, <<>>, 0)

Ok(recs)       == [NoRet EXCEPT !.recs = recs]
OkC(recs, ce)  == [NoRet EXCEPT !.recs = recs, !.cacheErr = ce]
OkIds(ids)     == [NoRet EXCEPT !.ids = ids]
OkFlag(b)      == [NoRet EXCEPT !.flag = b]
Err(kind)      == [NoRet EXCEPT !.ok = FALSE, !.err = kind]

\* DatabaseEvent: event_type, record_id, and what the payload describes
Event(type, rid, recs, ids) == [type |-> type, record_id |-> rid, recs |-> recs, ids |-> ids]

Perms(S) == {s \in [1..Cardinality(S) -> S] : Range(s) = S}

EmptyFn == [x \in {} |-> TRUE]
NoTx    == [open |-> FALSE, rows |-> EmptyFn]

Rows == [val : Vals, active : IF softDelete THEN BOOLEAN ELSE {TRUE}]

(***************************************************************************)
(* Cache Client calls.  A call to Redis may fail (ok = FALSE); a failed    *)
(* call changes nothing.                                                   *)
(***************************************************************************)
\* CacheManager::delete_record: DEL of one record key
delete_record(c, idText, ok) ==
    IF ok THEN Restrict(c, DOMAIN c \ {build_record_key(idText)}) ELSE c

\* mutant of invalidate_queries: one query key is deleted instead of the namespace
invalidate_queries_one_key(c, ok) ==
    IF ok THEN Restrict(c, DOMAIN c \ {build_query_key("q1")}) ELSE c

\* CacheManager::invalidate_queries: KEYS "{prefix}:{table}:query:*" then DEL
invalidate_queries(c, ok) ==
    IF ok THEN Restrict(c, DOMAIN c \ QueryKeys(c)) ELSE c

\* delete_record for each id of a sequence, in order; oks = ids whose DEL succeeds
RECURSIVE delete_each(_, _, _)
delete_each(c, ids, oks) ==
    IF ids = <<>> THEN c
    ELSE delete_each(delete_record(c, to_string_fast(idType, Head(ids)), Head(ids) \in oks),
                     Tail(ids), oks)

(***************************************************************************)
(* Statements against the backend.                                         *)
(***************************************************************************)
\* UPDATE .. SET .. WHERE pk = data.extract_id() RETURNING *, fetch_one:
\* fails when no row has that key or the backend rejects the value
UpdateFails(rows, data) == data.id \notin DOMAIN rows \/ data.val = BadVal

UpdateRows(rows, data) == [rows EXCEPT ![data.id].val = data.val]

(***************************************************************************)
(* Store Engine: initial state.                                            *)
(***************************************************************************)
InitStoreVars ==
    /\ idType \in IdTypes
    /\ hasPk = TRUE /\ reader = NoReader
    /\ softDelete \in BOOLEAN
    /\ hasSignals \in BOOLEAN
    /\ hasCache \in BOOLEAN
    /\ db \in UNION {[S -> Rows] : S \in SUBSET Ids}
    /\ tx = NoTx
    /\ cache = EmptyFn
    /\ pc = "idle"
    /\ op = NoOp
    /\ acc = <<>>
    /\ ret = NoRet
    /\ emitted = <<>>

(***************************************************************************)
(* Store Engine operations (GenericStore<T> as StoreObject).               *)
(***************************************************************************)
\* what a get_by_id(id) whose cache and backend calls succeed returns:
\* the cached value on a hit, the backend row on a miss
get_by_id_value(c, d, id) ==
    IF hasCache /\ ReadKey(id) \in DOMAIN c THEN c[ReadKey(id)] ELSE RowOf(d, id)

\* mutant of set_record_with_ttl: the SETEX stores nothing
set_record_with_ttl_dropped(c, key, record) == c

\* CacheManager::set_record_with_ttl: SETEX of the record under its key
set_record_with_ttl(c, key, record) == Put(c, key, record)

\* StorehausError::cache_operation: the error of a call whose cache call failed
CacheError == [Err("cache") EXCEPT !.cacheErr = TRUE]

\* mutant of get_by_id_outcome: a failed cache call falls back to the backend row
get_by_id_outcome_fail_open(id) ==
    \E getOk, dbOk, setOk \in BOOLEAN :
      LET key    == ReadKey(id)
          result == RowOf(db, id)
          lookupFailed == hasCache /\ ~getOk
      IN  IF hasCache /\ getOk /\ key \in DOMAIN cache
            THEN ret' = Ok(get_by_id_value(cache, db, id)) /\ cache' = cache
          ELSE IF ~dbOk
            THEN ret' = Err("db") /\ cache' = cache
          ELSE IF result # <<>> /\ hasCache
            THEN IF setOk
                   THEN ret' = OkC(result, lookupFailed)
                        /\ cache' = set_record_with_ttl(cache, key, result)
                   ELSE ret' = OkC(result, TRUE) /\ cache' = cache
          ELSE ret' = OkC(result, lookupFailed) /\ cache' = cache

\* the body of get_by_id: the cache lookup, the backend read, the cache write
get_by_id_outcome(id) ==
    \E getOk, dbOk, setOk \in BOOLEAN :
      LET key    == ReadKey(id)
          result == RowOf(db, id)
      IN  IF hasCache /\ ~getOk
            THEN ret' = CacheError /\ cache' = cache
          ELSE IF hasCache /\ key \in DOMAIN cache
            THEN ret' = Ok(get_by_id_value(cache, db, id)) /\ cache' = cache
          ELSE IF ~dbOk
            THEN ret' = Err("db") /\ cache' = cache
          ELSE IF result # <<>> /\ hasCache
            THEN IF setOk
                   THEN ret' = Ok(get_by_id_value(cache, db, id))
                        /\ cache' = set_record_with_ttl(cache, key, result)
                   ELSE ret' = CacheError /\ cache' = cache
          ELSE ret' = Ok(get_by_id_value(cache, db, id)) /\ cache' = cache

get_by_id(id) ==
    /\ pc = "idle"
    /\ pc' = "returned"
    /\ op' = [name |-> "get_by_id", id |-> id, pre |-> DOMAIN cache]
    /\ get_by_id_outcome(id)
    /\ emitted' = <<>>
    /\ UNCHANGED <<idType, hasPk, reader, softDelete, hasSignals, hasCache, db, tx, acc>>

\* the caller reads the same id again as soon as get_by_id has returned;
\* op keeps what the first call returned and the keys it found
get_by_id_again(id) ==
    /\ pc = "returned"
    /\ op.name = "get_by_id" /\ op.id = id
    /\ pc' = "returned"
    /\ op' = [name |-> "get_by_id", id |-> id, pre |-> DOMAIN cache,
              first |-> ret, first_pre |-> op.pre]
    /\ get_by_id_outcome(id)
    /\ emitted' = <<>>
    /\ UNCHANGED <<idType, hasPk, reader, softDelete, hasSignals, hasCache, db, tx, acc>>

update(id, data) ==
    /\ pc = "idle"
    /\ pc' = "returned"
    /\ op' = [name |-> "update", id |-> id, data |-> data, pre |-> DOMAIN cache]
    /\ \E dbOk, delOk, invOk \in BOOLEAN :
         IF ~dbOk \/ UpdateFails(db, data)
           THEN /\ ret' = Err("db")
                /\ UNCHANGED <<db, cache>>
                /\ emitted' = <<>>
           ELSE LET rows    == UpdateRows(db, data)
                    updated == Rec(data.id, rows[data.id])
                    idText  == to_string_fast(idType, id)
                IN  /\ db' = rows
                    /\ emitted' = IF hasSignals
                                    THEN <<Event("Update", <<idText>>, <<updated>>, <<>>)>>
                                    ELSE <<>>
                    /\ cache' = IF hasCache
                                  THEN invalidate_queries(delete_record(cache, idText, delOk), invOk)
                                  ELSE cache
                    /\ ret' = OkC(<<updated>>, hasCache /\ ~(delOk /\ invOk))
    /\ UNCHANGED <<idType, hasPk, reader, softDelete, hasSignals, hasCache, tx, acc>>

\* update_many: pool.begin()
update_many_begin ==
    /\ pc = "idle"
    /\ op' = [name |-> "update_many", pre |-> DOMAIN cache]
    /\ acc' = <<>>
    /\ emitted' = <<>>
    /\ \E dbOk \in BOOLEAN :
         IF dbOk
           THEN /\ pc' = "um_loop"
                /\ tx' = [open |-> TRUE, rows |-> db]
                /\ ret' = NoRet
           ELSE /\ pc' = "returned"
                /\ tx' = NoTx
                /\ ret' = Err("db")
    /\ UNCHANGED <<idType, hasPk, reader, softDelete, hasSignals, hasCache, db, cache>>

\* mutant of update_many_row: the row update runs on the pool, outside the transaction
update_many_row_on_pool(id, data) ==
    /\ pc = "um_loop"
    /\ Len(acc) < MaxBatch
    /\ \E dbOk \in BOOLEAN :
         IF ~dbOk \/ UpdateFails(tx.rows, data)
           THEN /\ pc' = "returned"
                /\ tx' = NoTx
                /\ ret' = Err("db")
                /\ acc' = acc
                /\ db' = db
           ELSE LET rows == UpdateRows(tx.rows, data)
                IN  /\ pc' = "um_loop"
                    /\ tx' = [tx EXCEPT !.rows = rows]
                    /\ db' = rows
                    /\ acc' = Append(acc, [id |-> id, updated |-> Rec(data.id, rows[data.id])])
                    /\ ret' = ret
    /\ UNCHANGED <<idType, hasPk, reader, softDelete, hasSignals, hasCache, cache, op, emitted>>

\* update_many: one turn of the loop, data.execute_update_tx(&mut tx) for the
\* next pair (id, data) of the batch; an error returns at once and the
\* dropped transaction rolls back.  The pairs of a batch are drawn with
\* data.extract_id() = id.
update_many_row(id, data) ==
    /\ pc = "um_loop"
    /\ Len(acc) < MaxBatch
    /\ \E dbOk \in BOOLEAN :
         IF ~dbOk \/ UpdateFails(tx.rows, data)
           THEN /\ pc' = "returned"
                /\ tx' = NoTx
                /\ ret' = Err("db")
                /\ acc' = acc
           ELSE LET rows == UpdateRows(tx.rows, data)
                IN  /\ pc' = "um_loop"
                    /\ tx' = [tx EXCEPT !.rows = rows]
                    /\ acc' = Append(acc, [id |-> id, updated |-> Rec(data.id, rows[data.id])])
                    /\ ret' = ret
    /\ UNCHANGED <<idType, hasPk, reader, softDelete, hasSignals, hasCache, db, cache, op, emitted>>

BatchUpdateEvent(all) ==
    Event("Update", <<>>, [i \in 1..Len(all) |-> all[i].updated], <<>>)

\* mutant of batch_events: one event per updated record
batch_events_per_record(all) ==
    IF hasSignals
      THEN [i \in 1..Len(all) |-> Event("Update", <<>>, <<all[i].updated>>, <<>>)]
      ELSE <<>>

\* "if self.signal_manager.is_some() && !all_updated_data.is_empty()": the
\* events update_many hands to emit_signal after the commit
batch_events(all) ==
    IF hasSignals /\ all # <<>> THEN <<BatchUpdateEvent(all)>> ELSE <<>>

\* update_many: the batch is exhausted; tx.commit(), then the single batch
\* event, then Ok(results)
update_many_commit ==
    /\ pc = "um_loop"
    /\ pc' = "returned"
    /\ tx' = NoTx
    /\ \E dbOk \in BOOLEAN :
         IF ~dbOk
           THEN /\ ret' = Err("db")
                /\ UNCHANGED <<db, emitted>>
           ELSE /\ db' = tx.rows
                /\ emitted' = batch_events(acc)
                /\ ret' = Ok([i \in 1..Len(acc) |-> acc[i].updated])
    /\ acc' = <<>>
    /\ UNCHANGED <<idType, hasPk, reader, softDelete, hasSignals, hasCache, cache, op>>

\* an aggregated event with its "updated_count" / "deleted_count" payload entry
Counted(event, n) ==
    [type |-> event.type, record_id |-> event.record_id, recs |-> event.recs,
     ids |-> event.ids, count |-> n]

\* mutant of aggregated_events: the event is built whatever the statement returned
aggregated_events_always(event, returned) == <<Counted(event, Len(returned))>>

\* "if self.signal_manager.is_some() && !returned.is_empty()": the events
\* update_where and delete_where hand over for the rows or ids returned
aggregated_events(event, returned) ==
    IF hasSignals /\ returned # <<>> THEN <<Counted(event, Len(returned))>> ELSE <<>>

\* rows an UPDATE .. WHERE of update_where touches
UpdateWhereTargets(q) ==
    {id \in DOMAIN db : Matches(q, db[id]) /\ (softDelete => db[id].active)}

update_where(q, v) ==
    /\ pc = "idle"
    /\ pc' = "returned"
    /\ op' = [name |-> "update_where", query |-> q, val |-> v, pre |-> DOMAIN cache]
    /\ \E dbOk, invOk \in BOOLEAN :
         IF ~dbOk \/ v = BadVal
           THEN /\ ret' = Err("db")
                /\ UNCHANGED <<db, cache>>
                /\ emitted' = <<>>
           ELSE \E order \in Perms(UpdateWhereTargets(q)), delOks \in SUBSET UpdateWhereTargets(q) :
                LET rows == [id \in DOMAIN db |->
                               IF id \in UpdateWhereTargets(q)
                                 THEN [db[id] EXCEPT !.val = v] ELSE db[id]]
                    updated_records == [i \in 1..Len(order) |-> Rec(order[i], rows[order[i]])]
                IN  /\ db' = rows
                    /\ emitted' = aggregated_events(Event("Update", <<>>, updated_records, <<>>),
                                                    updated_records)
                    /\ cache' = IF hasCache
                                  THEN invalidate_queries(delete_each(cache, order, delOks), invOk)
                                  ELSE cache
                    /\ ret' = OkC(updated_records,
                                  hasCache /\ ~(invOk /\ delOks = UpdateWhereTargets(q)))
    /\ UNCHANGED <<idType, hasPk, reader, softDelete, hasSignals, hasCache, tx, acc>>

\* mutant of set_active: the row is removed instead of flagged
set_active_removes(rows, id, is_active) ==
    Restrict(rows, DOMAIN rows \ {id})

\* SoftDeletable::set_active(id, is_active): rows_affected() > 0
set_active(rows, id, is_active) ==
    IF id \in DOMAIN rows THEN [rows EXCEPT ![id].active = is_active] ELSE rows

delete(id) ==
    /\ pc = "idle"
    /\ pc' = "returned"
    /\ op' = [name |-> "delete", id |-> id, pre |-> DOMAIN cache, row |-> RowOf(db, id)]
    /\ \E dbOk \in BOOLEAN :
         IF ~dbOk
           THEN /\ ret' = Err("db")
                /\ db' = db
                /\ emitted' = <<>>
         ELSE IF softDelete
           THEN /\ db' = set_active(db, id, FALSE)
                /\ ret' = OkFlag(id \in DOMAIN db)
                /\ emitted' = <<>>
           ELSE /\ db' = Restrict(db, DOMAIN db \ {id})
                /\ ret' = OkFlag(id \in DOMAIN db)
                /\ emitted' = IF id \in DOMAIN db /\ hasSignals
                                THEN <<Event("Delete", <<to_string_fast(idType, id)>>, <<>>, <<>>)>>
                                ELSE <<>>
    /\ UNCHANGED <<idType, hasPk, reader, softDelete, hasSignals, hasCache, tx, cache, acc>>

\* rows left and ids reported after deleting the ids of a sequence in order
RECURSIVE SoftDeleteEach(_, _)
SoftDeleteEach(rows, ids) ==
    IF ids = <<>> THEN rows ELSE SoftDeleteEach(set_active(rows, Head(ids), FALSE), Tail(ids))

RECURSIVE HardDeleted(_, _)
HardDeleted(rows, ids) ==
    IF ids = <<>> THEN <<>>
    ELSE IF Head(ids) \in DOMAIN rows
           THEN <<Head(ids)>> \o HardDeleted(Restrict(rows, DOMAIN rows \ {Head(ids)}), Tail(ids))
           ELSE HardDeleted(rows, Tail(ids))

SelectSeq2(ids, rows) == SelectSeq(ids, LAMBDA i : i \in DOMAIN rows)

\* failAt = 0: every statement succeeds; failAt = k: the k-th statement fails
delete_many(ids, failAt, commitOk) ==
    /\ pc = "idle"
    /\ pc' = "returned"
    /\ op' = [name |-> "delete_many", ids |-> ids, pre |-> DOMAIN cache]
    /\ IF softDelete
         THEN \* one set_active per id on the pool, no transaction, no event
              /\ emitted' = <<>>
              /\ IF failAt = 0
                   THEN /\ db' = SoftDeleteEach(db, ids)
                        /\ ret' = OkIds(SelectSeq2(ids, db))
                   ELSE /\ db' = SoftDeleteEach(db, SubSeq(ids, 1, failAt - 1))
                        /\ ret' = Err("db")
         ELSE \* DELETE per id in one transaction, commit, one batch event
              IF failAt # 0 \/ ~commitOk
                THEN /\ db' = db
                     /\ ret' = Err("db")
                     /\ emitted' = <<>>
                ELSE LET deleted_ids == HardDeleted(db, ids)
                     IN  /\ db' = Restrict(db, DOMAIN db \ Range(ids))
                         /\ ret' = OkIds(deleted_ids)
                         /\ emitted' = IF hasSignals /\ deleted_ids # <<>>
                                         THEN <<Event("Delete", <<>>, <<>>, deleted_ids)>>
                                         ELSE <<>>
    /\ UNCHANGED <<idType, hasPk, reader, softDelete, hasSignals, hasCache, tx, cache, acc>>

\* rows a delete_where statement touches (its WHERE clause is the query's only)
DeleteWhereTargets(q) == {id \in DOMAIN db : Matches(q, db[id])}

\* mutant of returning_ids: a table without primary key reports its row ids
returning_ids_always(returned) == returned

\* "RETURNING {pk}" collected into deleted_ids, or Vec::new() when the table
\* has no primary key
returning_ids(returned) == IF hasPk THEN returned ELSE <<>>

delete_where(q) ==
    /\ pc = "idle"
    /\ pc' = "returned"
    /\ op' = [name |-> "delete_where", query |-> q, pre |-> DOMAIN cache]
    /\ \E dbOk \in BOOLEAN :
         IF ~dbOk
           THEN /\ ret' = Err("db")
                /\ db' = db
                /\ emitted' = <<>>
           ELSE \E returned \in Perms(DeleteWhereTargets(q)) :
                LET deleted_ids == returning_ids(returned) IN
                /\ db' = IF softDelete
                           THEN [id \in DOMAIN db |->
                                   IF id \in DeleteWhereTargets(q)
                                     THEN [db[id] EXCEPT !.active = FALSE] ELSE db[id]]
                           ELSE Restrict(db, DOMAIN db \ DeleteWhereTargets(q))
                /\ ret' = OkIds(deleted_ids)
                /\ emitted' = aggregated_events(Event("Delete", <<>>, <<>>, deleted_ids),
                                                deleted_ids)
    /\ UNCHANGED <<idType, hasPk, reader, softDelete, hasSignals, hasCache, tx, cache, acc>>

\* the caller takes the result; the next call may start
Return ==
    /\ pc = "returned"
    /\ pc' = "idle"
    /\ op' = NoOp
    /\ ret' = NoRet
    /\ emitted' = <<>>
    /\ acc' = <<>>
    /\ UNCHANGED <<idType, hasPk, reader, softDelete, hasSignals, hasCache, db, tx, cache>>

(***************************************************************************)
(* Other users of the cache, acting between two calls of the caller.       *)
(***************************************************************************)
\* CacheManager::set_query: a query result of the table is cached
CacheSetQuery(h) ==
    /\ pc = "idle"
    /\ hasCache
    /\ build_query_key(h) \notin DOMAIN cache
    /\ cache' = Put(cache, build_query_key(h), <<>>)
    /\ UNCHANGED <<idType, hasPk, reader, softDelete, hasSignals, hasCache, db, tx, pc, op, acc, ret, emitted>>

\* a key reaches its TTL (SETEX) and Redis drops it
CacheExpire(k) ==
    /\ pc = "idle"
    /\ k \in DOMAIN cache
    /\ cache' = Restrict(cache, DOMAIN cache \ {k})
    /\ UNCHANGED <<idType, hasPk, reader, softDelete, hasSignals, hasCache, db, tx, pc, op, acc, ret, emitted>>

Datas == [id : Ids, val : InVals]

NextStore ==
    /\ \/ \E id \in Ids : get_by_id(id)
       \/ \E id \in Ids, data \in Datas : update(id, data)
       \/ update_many_begin
       \/ \E data \in Datas : update_many_row(data.id, data)
       \/ update_many_commit
       \/ \E q \in Queries, v \in InVals : update_where(q, v)
       \/ \E id \in Ids : delete(id)
       \/ \E ids \in SeqsUpTo(Ids, MaxBatch), commitOk \in BOOLEAN :
            \E failAt \in 0..Len(ids) : delete_many(ids, failAt, commitOk)
       \/ \E q \in Queries : delete_where(q)
       \/ Return
       \/ \E h \in QueryHashes : CacheSetQuery(h)
       \/ \E k \in DOMAIN cache : CacheExpire(k)
    /\ UNCHANGED <<sigVars, qbVars>>

\* reads only: get_by_id, alone or twice in a row, and the expiry of keys
NextRead ==
    /\ \/ \E id \in Ids : get_by_id(id)
       \/ \E id \in Ids : get_by_id_again(id)
       \/ Return
       \/ \E k \in DOMAIN cache : CacheExpire(k)
    /\ UNCHANGED <<sigVars, qbVars>>

(***************************************************************************)
(* Reading many rows: list_all runs the derive's LIST_ALL statement, find   *)
(* appends the query's clauses to the derive's SELECT_BASE statement.       *)
(***************************************************************************)
\* list_all_sql: "SELECT * FROM t WHERE f = TRUE ORDER BY ..." on a type with a
\* soft-delete field, "SELECT * FROM t ORDER BY ..." otherwise
list_all_sql(d) == {id \in DOMAIN d : softDelete => d[id].active}

\* select_base_sql: "SELECT * FROM t" on every type
select_base_sql(d) == DOMAIN d

\* find: base statement, then the query's WHERE clause; without ORDER BY the
\* rows come in any order
find(q) ==
    /\ pc = "idle"
    /\ pc' = "returned"
    /\ op' = [name |-> "find", query |-> q, pre |-> DOMAIN cache]
    /\ \E dbOk \in BOOLEAN :
         IF ~dbOk
           THEN ret' = Err("db")
           ELSE \E rows \in Perms({id \in select_base_sql(db) : Matches(q, db[id])}) :
                  ret' = Ok([i \in DOMAIN rows |-> Rec(rows[i], db[rows[i]])])
    /\ emitted' = <<>>
    /\ UNCHANGED <<idType, hasPk, reader, softDelete, hasSignals, hasCache, db, tx, cache, acc>>

\* list_all: the rows of LIST_ALL; their creation times are not part of the
\* state, so the order is any
list_all ==
    /\ pc = "idle"
    /\ pc' = "returned"
    /\ op' = [name |-> "list_all", pre |-> DOMAIN cache]
    /\ \E dbOk \in BOOLEAN :
         IF ~dbOk
           THEN ret' = Err("db")
           ELSE \E rows \in Perms(list_all_sql(db)) :
                  ret' = Ok([i \in DOMAIN rows |-> Rec(rows[i], db[rows[i]])])
    /\ emitted' = <<>>
    /\ UNCHANGED <<idType, hasPk, reader, softDelete, hasSignals, hasCache, db, tx, cache, acc>>

\* a caller who deletes and lists
NextFind ==
    /\ \/ \E q \in Queries : find(q)
       \/ list_all
       \/ \E id \in Ids : delete(id)
       \/ Return
    /\ UNCHANGED <<sigVars, qbVars>>

\* a caller of delete_where
NextWhere ==
    /\ \/ \E q \in Queries : delete_where(q)
       \/ Return
    /\ UNCHANGED <<sigVars, qbVars>>

(***************************************************************************)
(* update seen from a subscriber: emit_signal awaits the callbacks, so a   *)
(* callback runs between the statement and the cache invalidation.         *)
(***************************************************************************)
\* update up to and including `self.emit_signal(event).await`: the statement
\* has run and the event is with the Signal Bus, whose callbacks are running
update_emit(id, data) ==
    /\ pc = "idle"
    /\ \E dbOk \in BOOLEAN :
         IF ~dbOk \/ UpdateFails(db, data)
           THEN /\ pc' = "returned"
                /\ op' = [name |-> "update", id |-> id, data |-> data, pre |-> DOMAIN cache]
                /\ ret' = Err("db")
                /\ UNCHANGED db
                /\ emitted' = <<>>
           ELSE LET rows    == UpdateRows(db, data)
                    updated == Rec(data.id, rows[data.id])
                    idText  == to_string_fast(idType, id)
                IN  /\ pc' = "update_emitted"
                    /\ op' = [name |-> "update", id |-> id, data |-> data,
                              pre |-> DOMAIN cache, updated |-> updated, seen |-> <<>>]
                    /\ ret' = NoRet
                    /\ db' = rows
                    /\ emitted' = IF hasSignals
                                    THEN <<Event("Update", <<idText>>, <<updated>>, <<>>)>>
                                    ELSE <<>>
    /\ UNCHANGED <<idType, hasPk, reader, softDelete, hasSignals, hasCache, tx, cache, acc>>

\* a callback handling the Update event calls get_by_id with the id update
\* was called with; op.seen keeps what the call returned to it
subscriber_get_by_id ==
    /\ pc = "update_emitted"
    /\ emitted # <<>>
    /\ op.seen = <<>>
    /\ get_by_id_outcome(op.id)
    /\ op' = [op EXCEPT !.seen = <<ret'>>]
    /\ UNCHANGED <<idType, hasPk, reader, softDelete, hasSignals, hasCache, db, tx, pc, acc, emitted>>

\* update after emit_signal has returned: delete_record, invalidate_queries, Ok
update_invalidate ==
    /\ pc \in {"update_emitted", "update_notified"}
    /\ pc' = "returned"
    /\ \E delOk, invOk \in BOOLEAN :
         /\ cache' = IF hasCache
                       THEN invalidate_queries(
                              delete_record(cache, to_string_fast(idType, op.id), delOk), invOk)
                       ELSE cache
         /\ ret' = OkC(<<op.updated>>, hasCache /\ ~(delOk /\ invOk))
    /\ UNCHANGED <<idType, hasPk, reader, softDelete, hasSignals, hasCache, db, tx, op, acc, emitted>>

\* readers, an updater and the callback its event reaches
NextSubscriber ==
    /\ \/ \E id \in Ids : get_by_id(id)
       \/ \E id \in Ids, data \in Datas : update_emit(id, data)
       \/ subscriber_get_by_id
       \/ update_invalidate
       \/ Return
    /\ UNCHANGED <<sigVars, qbVars>>

(***************************************************************************)
(* get_by_id of a second task, running while the caller updates.  The call *)
(* yields at each of its awaits: the cache lookup, the backend read, the    *)
(* cache write.                                                            *)
(***************************************************************************)
\* get_by_id up to `get_record(..).await`: a hit returns the cached record
get_by_id_lookup(id) ==
    /\ reader.pc = "idle"
    /\ \E getOk \in BOOLEAN :
         reader' = IF hasCache /\ ~getOk
                     THEN [pc |-> "returned", id |-> <<id>>, found |-> <<>>, ok |-> FALSE]
                   ELSE IF hasCache /\ ReadKey(id) \in DOMAIN cache
                     THEN [pc |-> "returned", id |-> <<id>>, found |-> cache[ReadKey(id)],
                           ok |-> TRUE]
                   ELSE [pc |-> "missed", id |-> <<id>>, found |-> <<>>, ok |-> TRUE]
    /\ UNCHANGED <<idType, hasPk, softDelete, hasSignals, hasCache, db, tx, cache, pc, op,
                   acc, ret, emitted>>

\* get_by_id up to `fetch_optional(&self.db_pool).await`: the row as it is now
get_by_id_fetch ==
    /\ reader.pc = "missed"
    /\ \E dbOk \in BOOLEAN :
         LET result == RowOf(db, reader.id[1]) IN
         reader' = IF ~dbOk
                     THEN [reader EXCEPT !.pc = "returned", !.ok = FALSE]
                   ELSE IF result # <<>> /\ hasCache
                     THEN [reader EXCEPT !.pc = "fetched", !.found = result]
                   ELSE [reader EXCEPT !.pc = "returned", !.found = result]
    /\ UNCHANGED <<idType, hasPk, softDelete, hasSignals, hasCache, db, tx, cache, pc, op,
                   acc, ret, emitted>>

\* get_by_id up to `set_record_with_ttl(..).await`: the fetched row is cached
get_by_id_store ==
    /\ reader.pc = "fetched"
    /\ \E setOk \in BOOLEAN :
         /\ cache' = IF setOk
                       THEN set_record_with_ttl(cache, ReadKey(reader.id[1]), reader.found)
                       ELSE cache
         /\ reader' = [reader EXCEPT !.pc = "returned", !.ok = setOk]
    /\ UNCHANGED <<idType, hasPk, softDelete, hasSignals, hasCache, db, tx, pc, op,
                   acc, ret, emitted>>

\* two tasks on one store: one updates a row, the other reads by id
NextConcurrent ==
    /\ \/ \E data \in Datas : update_emit(data.id, data)
       \/ update_invalidate
       \/ Return
       \/ \E id \in Ids : get_by_id_lookup(id)
       \/ get_by_id_fetch
       \/ get_by_id_store
    /\ UNCHANGED <<sigVars, qbVars>>

(***************************************************************************)
(* Transaction-scoped variants: the statement runs on the executor the     *)
(* caller supplies, the pool or a transaction the caller has begun.        *)
(***************************************************************************)
tableVars == <<idType, hasPk, reader, softDelete, hasSignals, hasCache>>

Executors == {"pool", "tx"}

\* the rows the executor sees, and the state after a statement has left rows on it
ExecutorRows(on) == IF on = "tx" THEN tx.rows ELSE db
ExecutorHolds(on, rows) ==
    IF on = "tx" THEN tx' = [tx EXCEPT !.rows = rows] /\ db' = db
                 ELSE db' = rows /\ tx' = tx
ExecutorReady(on) == IF on = "tx" THEN tx.open ELSE ~tx.open

\* rows matched by the WHERE clause of q, with "AND active = TRUE" when soft
WhereTargets(rows, q, soft) ==
    {id \in DOMAIN rows : Matches(q, rows[id]) /\ (soft => rows[id].active)}

\* the caller: let mut tx = pool.begin(); tx.commit(); drop(tx)
executor_begin ==
    /\ pc = "idle" /\ ~tx.open
    /\ tx' = [open |-> TRUE, rows |-> db]
    /\ UNCHANGED <<tableVars, db, cache, pc, op, acc, ret, emitted>>

executor_commit ==
    /\ pc = "idle" /\ tx.open
    /\ db' = tx.rows
    /\ tx' = NoTx
    /\ UNCHANGED <<tableVars, cache, pc, op, acc, ret, emitted>>

executor_rollback ==
    /\ pc = "idle" /\ tx.open
    /\ tx' = NoTx
    /\ UNCHANGED <<tableVars, db, cache, pc, op, acc, ret, emitted>>

\* mutant of update_where_with_executor: it notifies and invalidates as update_where does
update_where_with_executor_notifying(on, q, v) ==
    /\ pc = "idle" /\ ExecutorReady(on)
    /\ pc' = "returned"
    /\ op' = [name |-> "update_where_with_executor", on |-> on, query |-> q, val |-> v,
              pre |-> DOMAIN cache]
    /\ \E dbOk \in BOOLEAN :
         IF ~dbOk \/ v = BadVal
           THEN /\ ret' = Err("db")
                /\ UNCHANGED <<db, tx, cache>>
                /\ emitted' = <<>>
           ELSE LET targets == WhereTargets(ExecutorRows(on), q, softDelete)
                IN  \E order \in Perms(targets) :
                      LET rows == [id \in DOMAIN ExecutorRows(on) |->
                                     IF id \in targets
                                       THEN [ExecutorRows(on)[id] EXCEPT !.val = v]
                                       ELSE ExecutorRows(on)[id]]
                          updated_records == [i \in 1..Len(order) |-> Rec(order[i], rows[order[i]])]
                      IN  /\ ExecutorHolds(on, rows)
                          /\ ret' = Ok(updated_records)
                          /\ emitted' = IF hasSignals /\ updated_records # <<>>
                                          THEN <<Event("Update", <<>>, updated_records, <<>>)>>
                                          ELSE <<>>
                          /\ cache' = IF hasCache
                                        THEN invalidate_queries(delete_each(cache, order, targets), TRUE)
                                        ELSE cache
    /\ UNCHANGED <<tableVars, acc>>

\* update_where_with_executor(executor, query, data)
update_where_with_executor(on, q, v) ==
    /\ pc = "idle" /\ ExecutorReady(on)
    /\ pc' = "returned"
    /\ op' = [name |-> "update_where_with_executor", on |-> on, query |-> q, val |-> v,
              pre |-> DOMAIN cache]
    /\ \E dbOk \in BOOLEAN :
         IF ~dbOk \/ v = BadVal
           THEN /\ ret' = Err("db")
                /\ UNCHANGED <<db, tx>>
           ELSE LET targets == WhereTargets(ExecutorRows(on), q, softDelete)
                IN  \E order \in Perms(targets) :
                      LET rows == [id \in DOMAIN ExecutorRows(on) |->
                                     IF id \in targets
                                       THEN [ExecutorRows(on)[id] EXCEPT !.val = v]
                                       ELSE ExecutorRows(on)[id]]
                          updated_records == [i \in 1..Len(order) |-> Rec(order[i], rows[order[i]])]
                      IN  /\ ExecutorHolds(on, rows)
                          /\ ret' = Ok(updated_records)
    /\ emitted' = <<>>
    /\ UNCHANGED <<tableVars, cache, acc>>

\* delete_where_with_executor(executor, query)
delete_where_with_executor(on, q) ==
    /\ pc = "idle" /\ ExecutorReady(on)
    /\ pc' = "returned"
    /\ op' = [name |-> "delete_where_with_executor", on |-> on, query |-> q,
              pre |-> DOMAIN cache]
    /\ \E dbOk \in BOOLEAN :
         IF ~dbOk
           THEN /\ ret' = Err("db")
                /\ UNCHANGED <<db, tx>>
           ELSE LET targets == WhereTargets(ExecutorRows(on), q, FALSE)
                IN  \E returned \in Perms(targets) :
                      LET rows == IF softDelete
                                    THEN [id \in DOMAIN ExecutorRows(on) |->
                                            IF id \in targets
                                              THEN [ExecutorRows(on)[id] EXCEPT !.active = FALSE]
                                              ELSE ExecutorRows(on)[id]]
                                    ELSE Restrict(ExecutorRows(on), DOMAIN ExecutorRows(on) \ targets)
                      IN  /\ ExecutorHolds(on, rows)
                          /\ ret' = OkIds(returning_ids(returned))
    /\ emitted' = <<>>
    /\ UNCHANGED <<tableVars, cache, acc>>

NextExecutor ==
    /\ \/ executor_begin
       \/ executor_commit
       \/ executor_rollback
       \/ \E on \in Executors, q \in Queries, v \in InVals : update_where_with_executor(on, q, v)
       \/ \E on \in Executors, q \in Queries : delete_where_with_executor(on, q)
       \/ \E id \in Ids : get_by_id(id)
       \/ \E h \in QueryHashes : CacheSetQuery(h)
       \/ Return
    /\ UNCHANGED <<sigVars, qbVars>>

(***************************************************************************)
(* create.  A record carries its __tags__; an event carries tags and a     *)
(* payload, here the record's fields by name.                              *)
(***************************************************************************)
Tags == {"t1", "t2"}
MaxTags == 2       \* longest list of tags a caller passes
TagLists == SeqsUpTo(Tags, MaxTags)

\* Option<Vec<String>>
NoTags == [some |-> FALSE, tags |-> <<>>]
SomeTags(t) == [some |-> TRUE, tags |-> t]

\* mutant of add_tags: every tag is pushed
add_tags_pushing(existing, tags) == existing \o tags

\* DatabaseEvent::add_tags: a tag is pushed unless the event holds it already
add_tags(existing, tags) ==
    LET keep == {i \in 1..Len(tags) :
                   /\ tags[i] \notin Range(existing)
                   /\ \A j \in 1..(i - 1) : tags[j] # tags[i]}
        nth(k) == CHOOSE i \in keep : Cardinality({j \in keep : j <= i}) = k
    IN  existing \o [k \in 1..Cardinality(keep) |-> tags[nth(k)]]

\* GenericStore::create_event_with_explicit_tags
create_event_with_explicit_tags(event_type, record, record_id, tags) ==
    LET event_tags == IF tags # <<>> THEN add_tags(<<>>, tags) ELSE <<>>
    IN  [type |-> event_type, record_id |-> record_id,
         payload |-> IF tags # <<>> THEN [record EXCEPT !.tags = event_tags] ELSE record,
         tags |-> event_tags]

\* GenericStore::create_event_with_tags: "no tags"
create_event_with_tags(event_type, record, record_id) ==
    create_event_with_explicit_tags(event_type, record, record_id, <<>>)

\* the INSERT of create_sql fails on a duplicate key or a rejected value
CreateFails(rows, data) == data.id \in DOMAIN rows \/ data.val = BadVal

\* the row RETURNING * gives back: the create fields as bound, the defaults
\* of the columns the statement does not name (__tags__ is not a create field)
CreatedRecord(data) == [id |-> data.id, val |-> data.val, active |-> TRUE, tags |-> <<>>]

create(data, tags) ==
    /\ pc = "idle"
    /\ pc' = "returned"
    /\ op' = [name |-> "create", data |-> data, tags |-> tags, pre |-> DOMAIN cache]
    /\ \E dbOk \in BOOLEAN :
         IF ~dbOk \/ CreateFails(db, data)
           THEN /\ ret' = Err("db")
                /\ db' = db
                /\ emitted' = <<>>
           ELSE LET created == CreatedRecord(data)
                IN  /\ db' = Put(db, data.id, [val |-> data.val, active |-> TRUE])
                    /\ emitted' =
                         IF hasSignals
                           THEN <<IF tags.some
                                    THEN create_event_with_explicit_tags("Create", created,
                                                                         <<>>, tags.tags)
                                    ELSE create_event_with_tags("Create", created, <<>>)>>
                           ELSE <<>>
                    /\ ret' = Ok(<<created>>)
    /\ UNCHANGED <<tableVars, tx, cache, acc>>

\* records passed to create: a primary key, a value, and __tags__ set or not
NewRecords == [id : Ids, val : InVals, tags : {<<>>, <<"t1">>}]

NextCreate ==
    /\ \/ \E data \in NewRecords, t \in TagLists : create(data, SomeTags(t))
       \/ \E data \in NewRecords : create(data, NoTags)
       \/ Return
    /\ UNCHANGED <<sigVars, qbVars>>

(***************************************************************************)
(* Signal Bus (SignalManager).                                             *)
(***************************************************************************)
EmitTasks == {"e1", "e2"}      \* tasks that call emit, possibly overlapping

Outcomes == {"ok", "err", "timeout"}   \* Ok(Ok(())), Ok(Err(_)), Err(Elapsed)

Configs == [max_callbacks : 1..MaxCallbacks,
            remove_failing_callbacks : BOOLEAN,
            max_consecutive_failures : 1..MaxFailLimit]

\* CallbackMeta of a callback being inserted: the counters at 0 and
\* created_at: std::time::Instant::now()
NewMeta == [consecutive_failures |-> 0, total_executions |-> 0, total_failures |-> 0,
            created_at |-> now]

\* the registry of a new SignalManager
RegistryStart(cfg) ==
    /\ config = cfg
    /\ callbacks = EmptyFn
    /\ next_id = 0
    /\ lock = "free"
    /\ epc = [e \in EmitTasks |-> "idle"]
    /\ futs = [e \in EmitTasks |-> <<>>]
    /\ results = [e \in EmitTasks |-> <<>>]
    /\ foldAt = [e \in EmitTasks |-> 1]
    /\ to_remove = [e \in EmitTasks |-> {}]
    /\ emitsLeft = MaxEmits
    /\ add_ret = "none"
    /\ hist = EmptyFn
    /\ born = EmptyFn
    /\ snapLeft = [e \in EmitTasks |-> MaxEmits]
    /\ error_handler = FALSE
    /\ handled = [e \in EmitTasks |-> <<>>]
    /\ now = 0

\* a SignalManager whose two start-up tasks have run: cleanup_loop is
\* running and its handle is stored
SignalStart(cfg) ==
    /\ RegistryStart(cfg)
    /\ cleanup_handle = "Some"
    /\ cleanup_task = "running"
    /\ spc = "idle"

\* mutant of fresh_id: the id is the size of the registry, so ids are reused
fresh_id_reused(next, cbs) == Cardinality(DOMAIN cbs)

\* CallbackId(self.next_id.fetch_add(1, Ordering::SeqCst))
fresh_id(next, cbs) == next

\* callbacks.remove(&id) for every id of a set, with the history kept per
\* registered callback
Unregister(ids) ==
    /\ callbacks' = Restrict(callbacks, DOMAIN callbacks \ ids)
    /\ hist' = Restrict(hist, DOMAIN hist \ ids)
    /\ born' = Restrict(born, DOMAIN born \ ids)

\* mutant of limit_reached: the limit is compared with > instead of >=
limit_reached_late(cbs) == Cardinality(DOMAIN cbs) > config.max_callbacks

\* "if callbacks.len() >= self.config.max_callbacks"
limit_reached(cbs) == Cardinality(DOMAIN cbs) >= config.max_callbacks

\* add_callback: the check, the id and the insert under one write guard
add_callback ==
    /\ lock = "free"
    /\ IF limit_reached(callbacks)
         THEN /\ add_ret' = "err"
              /\ UNCHANGED <<callbacks, next_id, hist, born>>
         ELSE /\ next_id < MaxIds
              /\ LET id == fresh_id(next_id, callbacks)
                 IN  /\ next_id' = next_id + 1
                     /\ callbacks' = Put(callbacks, id, NewMeta)
                     /\ hist' = Put(hist, id, <<>>)
                     /\ born' = Put(born, id, emitsLeft)
              /\ add_ret' = "ok"
    /\ UNCHANGED <<config, now, error_handler, handled, cleanup_handle, cleanup_task, spc, lock, epc, futs, results, foldAt, to_remove, emitsLeft, snapLeft>>

\* remove_callback(id), also CallbackHandle::unsubscribe
remove_callback(id) ==
    /\ lock = "free"
    /\ id \in DOMAIN callbacks
    /\ Unregister({id})
    /\ UNCHANGED <<config, now, error_handler, handled, cleanup_handle, cleanup_task, spc, add_ret, next_id, lock, epc, futs, results, foldAt, to_remove, emitsLeft,
                   snapLeft>>

\* mutant of clear_callbacks: clearing the registry also restarts the id counter
clear_callbacks_restarting ==
    /\ lock = "free"
    /\ callbacks # EmptyFn
    /\ Unregister(DOMAIN callbacks)
    /\ next_id' = 0
    /\ UNCHANGED <<config, now, error_handler, handled, cleanup_handle, cleanup_task, spc, add_ret, lock, epc, futs, results,
                   foldAt, to_remove, emitsLeft, snapLeft>>

\* clear_callbacks: callbacks.clear() under the write lock
clear_callbacks ==
    /\ lock = "free"
    /\ callbacks # EmptyFn
    /\ Unregister(DOMAIN callbacks)
    /\ UNCHANGED <<config, now, error_handler, handled, cleanup_handle, cleanup_task, spc, add_ret, next_id, lock, epc, futs, results, foldAt, to_remove, emitsLeft,
                   snapLeft>>

\* mutant of cleanup_sweep: every old callback is removed, executed or not
cleanup_sweep_executed_too(old) ==
    /\ cleanup_task = "running"
    /\ lock = "free"
    /\ Unregister(old)
    /\ UNCHANGED <<config, now, error_handler, handled, cleanup_handle, cleanup_task, spc, add_ret,
                   next_id, lock, epc, futs, results, foldAt, to_remove, emitsLeft, snapLeft>>

\* cleanup_loop, one tick: under the write lock, the callbacks older than 24
\* hours (old, whatever the clock says) that were never executed are removed
cleanup_sweep(old) ==
    /\ cleanup_task = "running"
    /\ lock = "free"
    /\ Unregister({c \in old : callbacks[c].total_executions = 0})
    /\ UNCHANGED <<config, now, error_handler, handled, cleanup_handle, cleanup_task, spc, add_ret, next_id, lock, epc, futs,
                   results, foldAt, to_remove, emitsLeft, snapLeft>>

\* "Duration::from_secs(86400)", the age the sweep compares with, in ticks
Day == 2

MaxClock == 4      \* the clock stops here

\* time passes
tick ==
    /\ now < MaxClock
    /\ now' = now + 1
    /\ UNCHANGED <<config, error_handler, handled, cleanup_handle, cleanup_task, spc, add_ret,
                   callbacks, next_id, lock, epc, futs, results, foldAt, to_remove, emitsLeft,
                   hist, born, snapLeft>>

\* "now.duration_since(meta.created_at) > Duration::from_secs(86400)"
older_than_a_day(c) == now - callbacks[c].created_at > Day

\* cleanup_loop, one tick with the clock read: the sweep over the callbacks
\* that are older than 24 hours now
cleanup_loop == cleanup_sweep({c \in DOMAIN callbacks : older_than_a_day(c)})

\* the second task spawned by new: "*handle = Some(cleanup_task)"
store_cleanup_handle ==
    /\ cleanup_handle = "unset"
    /\ cleanup_handle' = "Some"
    /\ UNCHANGED <<config, now, error_handler, handled, cleanup_task, spc, add_ret, callbacks, next_id, lock, epc, futs,
                   results, foldAt, to_remove, emitsLeft, hist, born, snapLeft>>

\* shutdown, first statement: self.clear_callbacks().await
shutdown_clear ==
    /\ spc = "idle"
    /\ lock = "free"
    /\ spc' = "cleared"
    /\ Unregister(DOMAIN callbacks)
    /\ UNCHANGED <<config, now, error_handler, handled, cleanup_handle, cleanup_task, add_ret, next_id, lock, epc, futs,
                   results, foldAt, to_remove, emitsLeft, snapLeft>>

\* shutdown, the rest: "if let Some(task) = handle.take() { task.abort(); }"
shutdown_abort ==
    /\ spc = "cleared"
    /\ spc' = "returned"
    /\ IF cleanup_handle = "Some"
         THEN cleanup_handle' = "taken" /\ cleanup_task' = "aborted"
         ELSE UNCHANGED <<cleanup_handle, cleanup_task>>
    /\ UNCHANGED <<config, now, error_handler, handled, add_ret, callbacks, next_id, lock, epc, futs,
                   results, foldAt, to_remove, emitsLeft, hist, born, snapLeft>>

\* the sum of a counter over the callbacks of a set
RECURSIVE SumOver(_, _)
SumOver(ids, field) ==
    IF ids = {} THEN 0
    ELSE LET c == CHOOSE x \in ids : TRUE
         IN  callbacks[c][field] + SumOver(ids \ {c}, field)

\* SignalManager::get_stats, what it reads under the read guard
get_stats ==
    [total_callbacks   |-> Cardinality(DOMAIN callbacks),
     total_executions  |-> SumOver(DOMAIN callbacks, "total_executions"),
     total_failures    |-> SumOver(DOMAIN callbacks, "total_failures"),
     failing_callbacks |-> Cardinality({c \in DOMAIN callbacks :
                                          callbacks[c].consecutive_failures > 0}),
     callback_limit    |-> config.max_callbacks]

\* SignalManager::get_stats can take self.callbacks.read() at once
can_get_stats == lock = "free"

\* mutant of lock_after_snapshot: the write guard outlives the first block
lock_after_snapshot_held(e) == e

\* holder of the registry lock once the first block of emit has been left
lock_after_snapshot(e) == "free"

\* self.config.callback_timeout_seconds, in ticks of the clock
callback_timeout_seconds == 2

\* tokio::time::timeout(duration, future): the deadline of the Timeout
\* future is Instant::now() + duration, taken when timeout() is called
timeout_deadline(at) == at + callback_timeout_seconds

\* emit, first block: under the write lock, bump total_executions of every
\* registered callback and build its timeout future (not polled yet); the
\* HashMap is iterated in an arbitrary order
emit_snapshot(e) ==
    /\ epc[e] = "idle"
    /\ lock = "free"
    /\ emitsLeft > 0
    /\ emitsLeft' = emitsLeft - 1
    /\ snapLeft' = [snapLeft EXCEPT ![e] = emitsLeft - 1]
    /\ callbacks' = [c \in DOMAIN callbacks |->
                       [callbacks[c] EXCEPT !.total_executions = @ + 1]]
    /\ \E order \in Perms(DOMAIN callbacks) :
         futs' = [futs EXCEPT ![e] =
                    [i \in 1..Len(order) |->
                       [id |-> order[i], st |-> "new",
                        deadline |-> timeout_deadline(now), started |-> now]]]
    /\ results' = [results EXCEPT ![e] = <<>>]
    /\ epc' = [epc EXCEPT ![e] = "await"]
    /\ lock' = lock_after_snapshot(e)
    /\ UNCHANGED <<config, now, error_handler, handled, cleanup_handle, cleanup_task, spc, add_ret, next_id, foldAt, to_remove, hist, born>>

\* emit, loop "for (id, timeout_future) in callback_futures": the i-th future
\* is polled for the first time, which starts the callback; the loop awaits
\* one future at a time, in the order of the snapshot
start_callback(e, i) ==
    /\ epc[e] = "await"
    /\ i \in 1..Len(futs[e])
    /\ i = Len(results[e]) + 1
    /\ futs[e][i].st = "new"
    /\ futs' = [futs EXCEPT ![e][i].st = "running", ![e][i].started = now]
    /\ UNCHANGED <<config, now, error_handler, handled, cleanup_handle, cleanup_task, spc, add_ret, callbacks, next_id, lock, epc, results, foldAt, to_remove,
                   emitsLeft, hist, born, snapLeft>>

\* the awaited future resolves: the callback returned Ok or Err, or the
\* timeout elapsed; the result is pushed and the loop goes on
finish_callback(e, outcome) ==
    /\ epc[e] = "await"
    /\ Len(results[e]) < Len(futs[e])
    /\ LET i == Len(results[e]) + 1
       IN  /\ futs[e][i].st = "running"
           /\ futs' = [futs EXCEPT ![e][i].st = "done"]
           /\ results' = [results EXCEPT ![e] =
                             Append(@, [id |-> futs[e][i].id, outcome |-> outcome])]
    /\ UNCHANGED <<config, now, error_handler, handled, cleanup_handle, cleanup_task, spc, add_ret, callbacks, next_id, lock, epc, foldAt, to_remove,
                   emitsLeft, hist, born, snapLeft>>

\* the awaited future resolves, with the clock read: Timeout polls the
\* callback's future first and reports Elapsed only when that is pending and
\* the deadline has passed
finish_callback_at(e, outcome) ==
    /\ Len(results[e]) < Len(futs[e])
    /\ outcome = "timeout" => now >= futs[e][Len(results[e]) + 1].deadline
    /\ finish_callback(e, outcome)

\* mutant of fold_begin: the loop is left before every future has resolved
fold_begin_early(e) ==
    /\ epc[e] = "await"
    /\ lock = "free"
    /\ lock' = e
    /\ epc' = [epc EXCEPT ![e] = "fold"]
    /\ foldAt' = [foldAt EXCEPT ![e] = 1]
    /\ to_remove' = [to_remove EXCEPT ![e] = {}]
    /\ UNCHANGED <<config, now, error_handler, handled, cleanup_handle, cleanup_task, spc, add_ret, callbacks, next_id, futs, results, emitsLeft, hist, born, snapLeft>>

\* emit, after the loop: self.callbacks.write().await
fold_begin(e) ==
    /\ epc[e] = "await"
    /\ Len(results[e]) = Len(futs[e])
    /\ lock = "free"
    /\ lock' = e
    /\ epc' = [epc EXCEPT ![e] = "fold"]
    /\ foldAt' = [foldAt EXCEPT ![e] = 1]
    /\ to_remove' = [to_remove EXCEPT ![e] = {}]
    /\ UNCHANGED <<config, now, error_handler, handled, cleanup_handle, cleanup_task, spc, add_ret, callbacks, next_id, futs, results, emitsLeft, hist, born, snapLeft>>

\* handle_callback_error: the error goes to the handler when one is set (it
\* is only logged otherwise); callback_index is the callback's id
handle_callback_error(reports, r) ==
    IF error_handler
      THEN Append(reports, [callback_index |-> r.id, outcome |-> r.outcome])
      ELSE reports

\* set_error_handler: "*error_handler = Some(Box::new(handler))"
set_error_handler ==
    /\ error_handler' = TRUE
    /\ UNCHANGED <<config, now, handled, cleanup_handle, cleanup_task, spc, add_ret, callbacks,
                   next_id, lock, epc, futs, results, foldAt, to_remove, emitsLeft, hist, born,
                   snapLeft>>

\* mutant of fold_result: a failure is added twice to total_failures
fold_result_counting_twice(meta, outcome) ==
    IF outcome = "ok"
      THEN [meta EXCEPT !.consecutive_failures = 0]
      ELSE [meta EXCEPT !.total_failures = @ + 2, !.consecutive_failures = @ + 1]

\* the metadata after one result has been folded into it
fold_result(meta, outcome) ==
    IF outcome = "ok"
      THEN [meta EXCEPT !.consecutive_failures = 0]
      ELSE [meta EXCEPT !.total_failures = @ + 1, !.consecutive_failures = @ + 1]

\* mutant of should_remove: the threshold is compared with > instead of >=
should_remove_late(meta) ==
    /\ config.remove_failing_callbacks
    /\ meta.consecutive_failures > config.max_consecutive_failures

\* "Check if should remove", on the metadata after a failure or a timeout
should_remove(meta) ==
    /\ config.remove_failing_callbacks
    /\ meta.consecutive_failures >= config.max_consecutive_failures

\* mutant of fold_step: a result whose callback is gone re-creates the entry
fold_step_reinsert(e) ==
    /\ epc[e] = "fold"
    /\ foldAt[e] <= Len(results[e])
    /\ LET r == results[e][foldAt[e]]
           old == IF r.id \in DOMAIN callbacks THEN callbacks[r.id] ELSE NewMeta
           meta == fold_result(old, r.outcome)
       IN  /\ callbacks' = Put(callbacks, r.id, meta)
           /\ hist' = Put(hist, r.id,
                          Append(IF r.id \in DOMAIN hist THEN hist[r.id] ELSE <<>>,
                                 r.outcome # "ok"))
           /\ born' = Put(born, r.id, IF r.id \in DOMAIN born THEN born[r.id] ELSE emitsLeft)
           /\ to_remove' = IF r.outcome # "ok" /\ should_remove(meta)
                             THEN [to_remove EXCEPT ![e] = @ \cup {r.id}]
                             ELSE to_remove
           /\ handled' = IF r.outcome # "ok"
                           THEN [handled EXCEPT ![e] = handle_callback_error(@, r)]
                           ELSE handled
    /\ foldAt' = [foldAt EXCEPT ![e] = @ + 1]
    /\ UNCHANGED <<config, now, error_handler, cleanup_handle, cleanup_task, spc, add_ret, next_id, lock, epc, futs, results, emitsLeft, snapLeft>>

\* emit, one turn of "for (id, result) in results" under the write lock
\* (handle_callback_error is awaited inside the turn)
fold_step(e) ==
    /\ epc[e] = "fold"
    /\ foldAt[e] <= Len(results[e])
    /\ LET r == results[e][foldAt[e]]
       IN  IF r.id \in DOMAIN callbacks
             THEN LET meta == fold_result(callbacks[r.id], r.outcome)
                  IN  /\ callbacks' = [callbacks EXCEPT ![r.id] = meta]
                      /\ hist' = [hist EXCEPT ![r.id] = Append(@, r.outcome # "ok")]
                      /\ to_remove' = IF r.outcome # "ok" /\ should_remove(meta)
                                        THEN [to_remove EXCEPT ![e] = @ \cup {r.id}]
                                        ELSE to_remove
                      /\ handled' = IF r.outcome # "ok"
                                      THEN [handled EXCEPT ![e] = handle_callback_error(@, r)]
                                      ELSE handled
             ELSE UNCHANGED <<callbacks, hist, to_remove, handled>>
    /\ foldAt' = [foldAt EXCEPT ![e] = @ + 1]
    /\ UNCHANGED <<config, now, error_handler, cleanup_handle, cleanup_task, spc, add_ret, next_id, lock, epc, futs, results, emitsLeft, born, snapLeft>>

\* mutant of fold_end: the queued callbacks stay registered
fold_end_keeping(e) ==
    /\ epc[e] = "fold"
    /\ foldAt[e] > Len(results[e])
    /\ lock' = "free"
    /\ epc' = [epc EXCEPT ![e] = "idle"]
    /\ futs' = [futs EXCEPT ![e] = <<>>]
    /\ results' = [results EXCEPT ![e] = <<>>]
    /\ foldAt' = [foldAt EXCEPT ![e] = 1]
    /\ to_remove' = [to_remove EXCEPT ![e] = {}]
    /\ handled' = [handled EXCEPT ![e] = <<>>]
    /\ UNCHANGED <<config, now, error_handler, cleanup_handle, cleanup_task, spc, add_ret, next_id,
                   emitsLeft, snapLeft, callbacks, hist, born>>

\* emit, end: "for id in ids_to_remove { callbacks.remove(&id) }", then the
\* guard is dropped and emit returns to its caller
fold_end(e) ==
    /\ epc[e] = "fold"
    /\ foldAt[e] > Len(results[e])
    /\ Unregister(to_remove[e])
    /\ lock' = "free"
    /\ epc' = [epc EXCEPT ![e] = "idle"]
    /\ futs' = [futs EXCEPT ![e] = <<>>]
    /\ results' = [results EXCEPT ![e] = <<>>]
    /\ foldAt' = [foldAt EXCEPT ![e] = 1]
    /\ to_remove' = [to_remove EXCEPT ![e] = {}]
    /\ handled' = [handled EXCEPT ![e] = <<>>]
    /\ UNCHANGED <<config, now, error_handler, cleanup_handle, cleanup_task, spc, add_ret, next_id, emitsLeft, snapLeft>>

NextSignal ==
    /\ \/ add_callback
       \/ \E id \in DOMAIN callbacks : remove_callback(id)
       \/ clear_callbacks
       \/ \E old \in SUBSET DOMAIN callbacks : cleanup_sweep(old)
       \/ \E e \in EmitTasks : emit_snapshot(e)
       \/ \E e \in EmitTasks, i \in 1..MaxCallbacks : start_callback(e, i)
       \/ \E e \in EmitTasks, o \in Outcomes : finish_callback(e, o)
       \/ \E e \in EmitTasks : fold_begin(e)
       \/ \E e \in EmitTasks : fold_step(e)
       \/ \E e \in EmitTasks : fold_end(e)
    /\ UNCHANGED <<storeVars, qbVars>>

\* a SignalManager from new to shutdown, with registrations and sweeps
NextShutdown ==
    /\ \/ add_callback
       \/ store_cleanup_handle
       \/ \E old \in SUBSET DOMAIN callbacks : cleanup_sweep(old)
       \/ shutdown_clear
       \/ shutdown_abort
    /\ UNCHANGED <<storeVars, qbVars>>

(***************************************************************************)
(* A Store Engine call and the Signal Bus together: the call hands its     *)
(* event to emit and goes on when emit has returned.                       *)
(***************************************************************************)
Caller == "e1"     \* the emit task of the Store Engine call

\* mutant of emit_signal: a callback that failed or timed out fails the call
emit_signal_propagating(result, outcomes) ==
    IF \E i \in 1..Len(outcomes) : outcomes[i].outcome # "ok" THEN Err("signal") ELSE result

\* GenericStore::emit_signal: "signal_manager.emit(event).await;" has no
\* value, so the result of the call is what it was before, whatever the
\* results of the callbacks are
emit_signal(result, outcomes) == result

\* the call has handed an event and has not awaited the bus yet: update
\* after its statement, create and delete before their final Ok(..)
AwaitsBus ==
    /\ emitted # <<>>
    /\ \/ pc = "update_emitted"
       \/ pc = "returned" /\ op.name \in {"create", "delete"}

\* self.emit_signal(event).await, the first block of emit
emit_signal_begin ==
    /\ AwaitsBus
    /\ emit_snapshot(Caller)
    /\ pc' = "notifying"
    /\ UNCHANGED <<idType, hasPk, reader, softDelete, hasSignals, hasCache, db, tx, cache, op, acc, ret,
                   emitted>>

\* emit returns to the call, which goes on: update to its cache
\* invalidation, create and delete to their Ok(..)
emit_signal_end ==
    /\ pc = "notifying"
    /\ ret' = emit_signal(ret, results[Caller])
    /\ fold_end(Caller)
    /\ pc' = IF op.name = "update" THEN "update_notified" ELSE "notified"
    /\ UNCHANGED <<idType, hasPk, reader, softDelete, hasSignals, hasCache, db, tx, cache, op, acc,
                   emitted>>

\* the caller takes the result of a create or delete that has notified
return_notified ==
    /\ pc = "notified"
    /\ pc' = "idle"
    /\ op' = NoOp
    /\ ret' = NoRet
    /\ emitted' = <<>>
    /\ UNCHANGED <<idType, hasPk, reader, softDelete, hasSignals, hasCache, db, tx, cache, acc>>

\* create, update and delete with subscribers that succeed, fail or time
\* out, while callbacks are registered and removed
NextNotify ==
    /\ \/ \E data \in {d \in NewRecords : d.tags = <<>>} :
            create(data, NoTags) /\ UNCHANGED sigVars
       \/ \E data \in Datas : update_emit(data.id, data) /\ UNCHANGED sigVars
       \/ \E id \in Ids : delete(id) /\ UNCHANGED sigVars
       \/ (emitted = <<>> \/ pc = "update_notified") /\ update_invalidate /\ UNCHANGED sigVars
       \/ ~AwaitsBus /\ Return /\ UNCHANGED sigVars
       \/ return_notified /\ UNCHANGED sigVars
       \/ emit_signal_begin
       \/ emit_signal_end
       \/ add_callback /\ UNCHANGED storeVars
       \/ \E id \in DOMAIN callbacks : remove_callback(id) /\ UNCHANGED storeVars
       \/ set_error_handler /\ UNCHANGED storeVars
       \/ \E i \in 1..MaxCallbacks : start_callback(Caller, i) /\ UNCHANGED storeVars
       \/ \E o \in Outcomes : finish_callback(Caller, o) /\ UNCHANGED storeVars
       \/ fold_begin(Caller) /\ UNCHANGED storeVars
       \/ fold_step(Caller) /\ UNCHANGED storeVars
    /\ UNCHANGED qbVars

\* registrations, one task that emits, the clock and the periodic sweep:
\* nothing but the sweep and the eviction of emit removes a callback
NextSweep ==
    /\ \/ add_callback
       \/ tick
       \/ cleanup_loop
       \/ emit_snapshot(Caller)
       \/ \E i \in 1..MaxCallbacks : start_callback(Caller, i)
       \/ \E o \in {"ok", "err"} : finish_callback(Caller, o)
       \/ fold_begin(Caller)
       \/ fold_step(Caller)
       \/ fold_end(Caller)
    /\ UNCHANGED <<storeVars, qbVars>>

\* a callback of the caller's emit is running
CallbackRunning == \E i \in 1..Len(futs[Caller]) : futs[Caller][i].st = "running"

\* one emit with the clock: its callbacks run, finish or time out; the
\* steps of emit itself take no time, time passes while a callback runs
NextTimeout ==
    /\ \/ add_callback
       \/ CallbackRunning /\ tick
       \/ emit_snapshot(Caller)
       \/ \E i \in 1..MaxCallbacks : start_callback(Caller, i)
       \/ \E o \in Outcomes : finish_callback_at(Caller, o)
       \/ fold_begin(Caller)
       \/ fold_step(Caller)
       \/ fold_end(Caller)
    /\ UNCHANGED <<storeVars, qbVars>>

(***************************************************************************)
(* Query Builder.  SQL text is a sequence of tokens: a placeholder is the  *)
(* character "$" followed by its decimal digits, one token per character;  *)
(* every other fragment of text is one token.                              *)
(***************************************************************************)
MaxArr == 2        \* longest array value of an IN / NOT IN / && leaf

QueryOperators == {"Eq", "Ne", "Gt", "Gte", "Lt", "Lte", "Like", "ILike",
                   "In", "NotIn", "IsNull", "IsNotNull", "ArrayOverlap"}
ScalarOps == {"Eq", "Ne", "Gt", "Gte", "Lt", "Lte", "Like", "ILike"}
ArrayOps  == {"In", "NotIn", "ArrayOverlap"}
NullOps   == {"IsNull", "IsNotNull"}

\* Option<serde_json::Value>: None, a scalar, or Value::Array of scalars
NoValue     == [tag |-> "none", v |-> <<>>, items |-> <<>>]
Scalar(x)   == [tag |-> "scalar", v |-> <<x>>, items |-> <<>>]
ArrayOf(xs) == [tag |-> "array", v |-> <<>>, items |-> xs]
\* the i-th element of every array value is the scalar "a" followed by i
Element(i)  == [tag |-> "scalar", v |-> <<"a">> \o Dec(i), items |-> <<>>]
ArrayValues == {ArrayOf([i \in 1..n |-> Element(i)]) : n \in 0..MaxArr}

\* QueryFilter::Condition and QueryFilter::Group
Condition(field, operator, value) ==
    [kind |-> "Condition", field |-> field, operator |-> operator, value |-> value,
     filters |-> <<>>]
Group(operator, fs) ==
    [kind |-> "Group", field |-> "", operator |-> operator, value |-> NoValue,
     filters |-> fs]

\* format!("${}", param_counter)
Param(n) == <<"$">> \o Dec(n)

RECURSIVE Join(_, _)
\* Vec<String>::join(sep)
Join(parts, sep) ==
    IF parts = <<>> THEN <<>>
    ELSE IF Len(parts) = 1 THEN parts[1]
    ELSE parts[1] \o <<sep>> \o Join(Tail(parts), sep)

\* the comparison a scalar operator renders between field and placeholder
OpText(operator) ==
    CASE operator = "Eq" -> " = "   [] operator = "Ne" -> " != "
      [] operator = "Gt" -> " > "   [] operator = "Gte" -> " >= "
      [] operator = "Lt" -> " < "   [] operator = "Lte" -> " <= "
      [] operator = "Like" -> " LIKE " [] operator = "ILike" -> " ILIKE "

\* mutant of NoValueText: every scalar operator without a value renders IS NULL
NoValueTextIsNull(field, operator) == <<field, " IS NULL">>

\* what a scalar operator renders when the leaf carries no value
NoValueText(field, operator) ==
    CASE operator = "Eq" -> <<field, " IS NULL">>
      [] operator = "Ne" -> <<field, " IS NOT NULL">>
      [] OTHER -> <<"1=0">>

\* mutant of EmptyArrayText: every empty list renders the always-false predicate
EmptyArrayTextAlwaysFalse(operator) == <<"1=0">>

\* what an array operator renders for an empty array
EmptyArrayText(operator) == IF operator = "NotIn" THEN <<"1=1">> ELSE <<"1=0">>

\* what an array operator renders when the value is absent or not an array
NotArrayText(operator) == IF operator = "NotIn" THEN <<"1=1">> ELSE <<"1=0">>

\* the list an array operator renders around its placeholders
ArrayText(field, operator, placeholders) ==
    CASE operator = "In" -> <<field, " IN (">> \o placeholders \o <<")">>
      [] operator = "NotIn" -> <<field, " NOT IN (">> \o placeholders \o <<")">>
      [] operator = "ArrayOverlap" -> <<field, " && ARRAY[">> \o placeholders \o <<"]">>

\* mutant of counter_after_array: an array leaf advances the counter by one
counter_after_array_by_one(n, len) == n + 1

\* param_counter after the closure "*param_counter += 1" ran once per element
counter_after_array(n, len) == n + len

\* SqlGenerator::build_single_condition_sql
build_single_condition_sql(c, values, n) ==
    CASE c.operator \in ScalarOps ->
           IF c.value.tag # "none"
             THEN [sql |-> <<c.field, OpText(c.operator)>> \o Param(n),
                   values |-> Append(values, c.value), param_counter |-> n + 1]
             ELSE [sql |-> NoValueText(c.field, c.operator),
                   values |-> values, param_counter |-> n]
      [] c.operator \in ArrayOps ->
           IF c.value.tag = "array"
             THEN IF c.value.items = <<>>
                    THEN [sql |-> EmptyArrayText(c.operator),
                          values |-> values, param_counter |-> n]
                    ELSE LET len == Len(c.value.items)
                             placeholders == Join([i \in 1..len |-> Param(n + i - 1)], ", ")
                         IN  [sql |-> ArrayText(c.field, c.operator, placeholders),
                              values |-> values \o c.value.items,
                              param_counter |-> counter_after_array(n, len)]
             ELSE [sql |-> NotArrayText(c.operator),
                   values |-> values, param_counter |-> n]
      [] c.operator = "IsNull" ->
           [sql |-> <<c.field, " IS NULL">>, values |-> values, param_counter |-> n]
      [] c.operator = "IsNotNull" ->
           [sql |-> <<c.field, " IS NOT NULL">>, values |-> values, param_counter |-> n]

RECURSIVE build_condition_sql(_, _, _)
RECURSIVE build_conditions(_, _, _)
\* SqlGenerator::build_condition_sql
build_condition_sql(filter, values, n) ==
    IF filter.kind = "Condition"
      THEN build_single_condition_sql(filter, values, n)
      ELSE LET r == build_conditions(filter.filters, values, n)
               operator_str == IF filter.operator = "And" THEN " AND " ELSE " OR "
           IN  [sql |-> <<"(">> \o Join(r.parts, operator_str) \o <<")">>,
                values |-> r.values, param_counter |-> r.param_counter]

\* ".iter().map(|f| Self::build_condition_sql(f, values, param_counter))": the
\* filters of a list compiled from left to right on one counter
build_conditions(fs, values, n) ==
    IF fs = <<>>
      THEN [parts |-> <<>>, values |-> values, param_counter |-> n]
      ELSE LET first == build_condition_sql(Head(fs), values, n)
               rest == build_conditions(Tail(fs), first.values, first.param_counter)
           IN  [parts |-> <<first.sql>> \o rest.parts,
                values |-> rest.values, param_counter |-> rest.param_counter]

\* SqlGenerator::build_where_clause
build_where_clause(conditions) ==
    IF conditions = <<>>
      THEN [sql |-> <<>>, values |-> <<>>]
      ELSE LET r == build_conditions(conditions, <<>>, 1)
               conditions_sql == Join(r.parts, " AND ")
           IN  IF conditions_sql = <<>>
                 THEN [sql |-> <<>>, values |-> r.values]
                 ELSE [sql |-> <<"WHERE ">> \o conditions_sql, values |-> r.values]

\* SqlGenerator::build_having_clause, on GroupBy.having = Some(having) when
\* having is not empty (GroupBy::has_having) and no HAVING otherwise
build_having_clause(having) ==
    IF having = <<>>
      THEN [sql |-> <<>>, values |-> <<>>]
      ELSE LET r == build_conditions(having, <<>>, 1)
           IN  [sql |-> <<"HAVING ">> \o Join(r.parts, " AND "), values |-> r.values]

\* the filter lists the Query Builder is given
LogicalOperators == {"And", "Or"}
Leaves ==
    {Condition("f", o, v) : o \in ScalarOps, v \in {NoValue, Scalar("s")}}
      \cup {Condition("f", o, v) : o \in ArrayOps, v \in {NoValue, Scalar("s")} \cup ArrayValues}
      \cup {Condition("f", o, NoValue) : o \in NullOps}
SomeLeaves ==
    {Condition("g", "Eq", Scalar("t")), Condition("g", "Gt", NoValue),
     Condition("g", "In", ArrayOf([i \in 1..MaxArr |-> Element(i)])),
     Condition("g", "NotIn", ArrayOf(<<>>)), Condition("g", "IsNull", NoValue)}
\* the filter lists of one shape: flat lists, groups, and groups in groups
FilterLists(shape) ==
    CASE shape = 1 -> {<<>>}
      [] shape = 2 -> {<<a>> : a \in Leaves}
      [] shape = 3 -> {<<a, b>> : a \in Leaves, b \in Leaves}
      [] shape = 4 -> {<<Group(o, <<>>)>> : o \in LogicalOperators}
      [] shape = 5 ->
           {<<Group(o, <<a, b>>)>> : o \in LogicalOperators, a \in Leaves, b \in Leaves}
      [] shape = 6 ->
           {<<a, Group(o, <<b>>), c>> :
              o \in LogicalOperators, a \in Leaves, b \in Leaves, c \in SomeLeaves}
      [] shape = 7 ->
           {<<Group(o, <<a, Group(o2, <<b, c>>)>>)>> :
              o \in LogicalOperators, o2 \in LogicalOperators,
              a \in Leaves, b \in Leaves, c \in SomeLeaves}
      [] shape = 8 ->
           {<<Group(o, <<Group(o2, <<a>>), b>>)>> :
              o \in LogicalOperators, o2 \in LogicalOperators, a \in Leaves, b \in Leaves}
FilterShapes == 1..8

\* QueryBuilder::build on a builder whose conditions are the filters
build ==
    /\ built.kind = "none"
    /\ built' = Built("build", Len(filters), build_where_clause(filters), NoClause, <<>>, <<>>, 0)
    /\ UNCHANGED filters

\* QueryBuilder::build_full on a builder whose conditions are the first k
\* filters and whose group_by.having holds the others
build_full(k) ==
    /\ built.kind = "none"
    /\ k \in 0..Len(filters)
    /\ built' = Built("build_full", k, build_where_clause(SubSeq(filters, 1, k)),
                      build_having_clause(SubSeq(filters, k + 1, Len(filters))),
                      <<>>, <<>>, 0)
    /\ UNCHANGED filters

NextQuery ==
    /\ \/ build
       \/ \E k \in 0..Len(filters) : build_full(k)
    /\ UNCHANGED <<storeVars, sigVars>>

\* the statement update_where assembles
MaxSet == 12       \* most SET parameters of an update_where
MaxWhere == 12     \* most WHERE parameters of an update_where

UpdateOperations == {"Set", "Increment", "Decrement", "Multiply", "Divide"}

\* the i-th column in the order of the SET clause, and the value bound to it
Column(i) == <<"c">> \o Dec(i)
SetValue(i) == [tag |-> "scalar", v |-> <<"u">> \o Dec(i), items |-> <<>>]

\* UpdateOperation::to_sql
to_sql(operation, field_name, param_number) ==
    CASE operation = "Set" -> field_name \o <<" = ">> \o Param(param_number)
      [] operation = "Increment" ->
           field_name \o <<" = ">> \o field_name \o <<" + ">> \o Param(param_number)
      [] operation = "Decrement" ->
           field_name \o <<" = ">> \o field_name \o <<" - ">> \o Param(param_number)
      [] operation = "Multiply" ->
           field_name \o <<" = ">> \o field_name \o <<" * ">> \o Param(param_number)
      [] operation = "Divide" ->
           field_name \o <<" = ">> \o field_name \o <<" / ">> \o Param(param_number)

\* where from occurs in text
MatchesAt(text, from) ==
    {p \in 1..(Len(text) - Len(from) + 1) : SubSeq(text, p, p + Len(from) - 1) = from}

RECURSIVE Replace(_, _, _)
\* str::replace: every non-overlapping match of from, left to right
Replace(text, from, to) ==
    IF MatchesAt(text, from) = {} THEN text
    ELSE LET p == CHOOSE m \in MatchesAt(text, from) : \A o \in MatchesAt(text, from) : m <= o
         IN  SubSeq(text, 1, p - 1) \o to
               \o Replace(SubSeq(text, p + Len(from), Len(text)), from, to)

RECURSIVE adjust_where_clause(_, _, _)
\* "for i in (1..=params.len()).rev()": the turns i, i-1, .., 1 of the loop
adjust_where_clause(where_str, i, num_update_params) ==
    IF i = 0 THEN where_str
    ELSE adjust_where_clause(Replace(where_str, Param(i), Param(num_update_params + i)),
                             i - 1, num_update_params)

\* update_where up to the bound statement: mode is "legacy" (SET clause from
\* T::update_fields()) or the operation of an UpdateSet over s columns
update_where_statement(mode, s) ==
    /\ built.kind = "none"
    /\ LET w == build_where_clause(filters)
           params == w.values
           set_clause ==
               IF mode = "legacy"
                 THEN Join([i \in 1..s |-> Column(i) \o <<" = ">> \o Param(i)], ", ")
                 ELSE Join([i \in 1..s |-> to_sql(mode, Column(i), i)], ", ")
           adjusted == IF params # <<>> THEN adjust_where_clause(w.sql, Len(params), s)
                                        ELSE w.sql
           filtered == IF ~softDelete THEN adjusted
                       ELSE IF adjusted = <<>> THEN <<"WHERE ", "active", " = TRUE">>
                       ELSE adjusted \o <<" AND ", "active", " = TRUE">>
           sql == <<"UPDATE ", Table, " SET ">> \o set_clause
                    \o <<", __updated_at__ = NOW() ">> \o filtered \o <<" RETURNING *">>
       IN  built' = Built("update_where", Len(filters), w, NoClause, sql,
                          [i \in 1..s |-> SetValue(i)] \o params, s)
    /\ UNCHANGED filters

\* queries with 0..MaxWhere parameters: a list of eq leaves, or one IN list
WhereLists ==
    {[i \in 1..w |-> Condition("f", "Eq", Element(i))] : w \in 0..MaxWhere}
      \cup {<<Condition("f", "In", ArrayOf([i \in 1..w |-> Element(i)]))>> : w \in 1..MaxWhere}

NextUpdateWhere ==
    /\ \E mode \in {"legacy"} \cup UpdateOperations, s \in 1..MaxSet :
         update_where_statement(mode, s)
    /\ UNCHANGED <<storeVars, sigVars>>

\* the value bind_update_params_owned binds for the i-th update field of data
ModelValue(i) == [tag |-> "scalar", v |-> <<"m">> \o Dec(i), items |-> <<>>]

\* query.update(..) was not called, or was called with an UpdateSet of n
\* operations (n = 0: UpdateSet::new())
UpdateSets ==
    {[present |-> FALSE, operation |-> "Set", n |-> 0]}
      \cup [present : {TRUE}, operation : UpdateOperations, n : 0..MaxSet]

\* QueryBuilder::get_updates is Some
get_updates(updates) == updates.present

\* QueryBuilder::has_updates
has_updates(updates) == updates.present /\ updates.n # 0

\* update_where from its arguments to the statement it sends: the SET clause
\* is chosen by get_updates, the values to bind by has_updates; nfields is the
\* number of T::update_fields(), data the Option<Model> argument
update_where_bind(updates, data, nfields) ==
    /\ built.kind = "none"
    /\ LET w == build_where_clause(filters)
           params == w.values
           set_clause ==
               IF get_updates(updates)
                 THEN Join([i \in 1..updates.n |-> to_sql(updates.operation, Column(i), i)], ", ")
                 ELSE Join([i \in 1..nfields |-> Column(i) \o <<" = ">> \o Param(i)], ", ")
           update_values ==
               IF get_updates(updates) THEN [i \in 1..updates.n |-> SetValue(i)] ELSE <<>>
           num_update_params == IF get_updates(updates) THEN updates.n ELSE nfields
           adjusted == IF params # <<>>
                         THEN adjust_where_clause(w.sql, Len(params), num_update_params)
                         ELSE w.sql
           filtered == IF ~softDelete THEN adjusted
                       ELSE IF adjusted = <<>> THEN <<"WHERE ", "active", " = TRUE">>
                       ELSE adjusted \o <<" AND ", "active", " = TRUE">>
           sql == <<"UPDATE ", Table, " SET ">> \o set_clause
                    \o <<", __updated_at__ = NOW() ">> \o filtered \o <<" RETURNING *">>
       IN  built' =
             IF has_updates(updates)
               THEN Built("update_where", Len(filters), w, NoClause, sql,
                          update_values \o params, num_update_params)
             ELSE IF ~data
               THEN Built("InvalidConfiguration", Len(filters), w, NoClause, <<>>, <<>>,
                          num_update_params)
             ELSE Built("update_where", Len(filters), w, NoClause, sql,
                        [i \in 1..nfields |-> ModelValue(i)] \o params, num_update_params)
    /\ UNCHANGED filters

NextUpdateBind ==
    /\ \E updates \in UpdateSets, data \in BOOLEAN, nfields \in 1..MaxSet :
         update_where_bind(updates, data, nfields)
    /\ UNCHANGED <<storeVars, sigVars>>

(***************************************************************************)
(* Specifications.                                                         *)
(***************************************************************************)
DefaultConfig == [max_callbacks |-> MaxCallbacks, remove_failing_callbacks |-> TRUE,
                  max_consecutive_failures |-> MaxFailLimit]

\* no QueryBuilder in use
QueryIdle == filters = <<>> /\ built = NoBuilt

\* a store that is not in use
StoreIdle ==
    /\ idType = "int" /\ hasPk = TRUE /\ reader = NoReader /\ hasSignals = TRUE /\ hasCache = FALSE
    /\ db = EmptyFn /\ tx = NoTx /\ cache = EmptyFn /\ pc = "idle" /\ op = NoOp
    /\ acc = <<>> /\ ret = NoRet /\ emitted = <<>>

InitStore == InitStoreVars /\ SignalStart(DefaultConfig) /\ QueryIdle

SpecStore == InitStore /\ [][NextStore]_vars

\* the caller only reads
SpecRead == InitStore /\ [][NextRead]_vars

\* the caller deletes rows and lists the table
SpecFind == InitStore /\ [][NextFind]_vars

\* a caller of the transaction-scoped variants, on a table with or without
\* primary key
InitExecutor ==
    /\ idType = "int" /\ hasPk \in BOOLEAN /\ reader = NoReader
    /\ softDelete \in BOOLEAN /\ hasSignals \in BOOLEAN /\ hasCache \in BOOLEAN
    /\ db \in UNION {[S -> Rows] : S \in SUBSET Ids}
    /\ tx = NoTx /\ cache = EmptyFn /\ pc = "idle" /\ op = NoOp
    /\ acc = <<>> /\ ret = NoRet /\ emitted = <<>>
    /\ SignalStart(DefaultConfig) /\ QueryIdle

SpecExecutor == InitExecutor /\ [][NextExecutor]_vars

\* a caller that creates records
SpecCreate == InitStore /\ [][NextCreate]_vars

\* delete_where on a table with or without primary key
SpecWhere == InitExecutor /\ [][NextWhere]_vars

\* update with a subscriber reading during the event
SpecSubscriber == InitStore /\ [][NextSubscriber]_vars

\* an updater and a reader on a cached table with integer keys
InitConcurrent ==
    /\ InitStore
    /\ idType = "int" /\ hasCache
SpecConcurrent == InitConcurrent /\ [][NextConcurrent]_vars

\* the Signal Bus on its own: no Store Engine call is made
InitSignal ==
    /\ idType = "int" /\ hasPk = TRUE /\ reader = NoReader /\ softDelete = FALSE /\ hasSignals = TRUE
    /\ hasCache = FALSE
    /\ db = EmptyFn /\ tx = NoTx /\ cache = EmptyFn /\ pc = "idle" /\ op = NoOp
    /\ acc = <<>> /\ ret = NoRet /\ emitted = <<>>
    /\ \E cfg \in Configs : SignalStart(cfg)
    /\ QueryIdle

SpecSignal == InitSignal /\ [][NextSignal]_vars

\* the state SignalManager::new returns in: cleanup_loop spawned, its handle
\* not stored yet
InitShutdown ==
    /\ idType = "int" /\ hasPk = TRUE /\ reader = NoReader /\ softDelete = FALSE /\ hasSignals = TRUE
    /\ hasCache = FALSE
    /\ db = EmptyFn /\ tx = NoTx /\ cache = EmptyFn /\ pc = "idle" /\ op = NoOp
    /\ acc = <<>> /\ ret = NoRet /\ emitted = <<>>
    /\ \E cfg \in Configs : RegistryStart(cfg)
    /\ cleanup_handle = "unset" /\ cleanup_task = "running" /\ spc = "idle"
    /\ QueryIdle

SpecShutdown == InitShutdown /\ [][NextShutdown]_vars

\* SignalConfig with its sweep settings: the sweep switched on or off, its
\* threshold below the 24 hours
SweepConfigs ==
    {[max_callbacks |-> MaxCallbacks, remove_failing_callbacks |-> r,
      max_consecutive_failures |-> MaxFailLimit,
      auto_remove_inactive_callbacks |-> a,
      inactive_callback_threshold_seconds |-> Day - 1] :
        r \in BOOLEAN, a \in BOOLEAN}

InitSweep ==
    /\ idType = "int" /\ hasPk = TRUE /\ reader = NoReader /\ softDelete = FALSE /\ hasSignals = TRUE
    /\ hasCache = FALSE
    /\ db = EmptyFn /\ tx = NoTx /\ cache = EmptyFn /\ pc = "idle" /\ op = NoOp
    /\ acc = <<>> /\ ret = NoRet /\ emitted = <<>>
    /\ \E cfg \in SweepConfigs : SignalStart(cfg)
    /\ QueryIdle

SpecSweep == InitSweep /\ [][NextSweep]_vars

\* the Signal Bus with a clock
SpecTimeout == InitSignal /\ [][NextTimeout]_vars

\* a store on a hard-delete table, empty or full, with a signal manager and
\* no cache
InitNotify ==
    /\ idType = "int" /\ hasPk = TRUE /\ reader = NoReader /\ softDelete = FALSE /\ hasSignals = TRUE
    /\ hasCache = FALSE
    /\ db \in UNION {[S -> Rows] : S \in {{}, Ids}}
    /\ tx = NoTx /\ cache = EmptyFn /\ pc = "idle" /\ op = NoOp
    /\ acc = <<>> /\ ret = NoRet /\ emitted = <<>>
    /\ \E cfg \in Configs : SignalStart(cfg)
    /\ QueryIdle

SpecNotify == InitNotify /\ [][NextNotify]_vars

\* every started future resolves (at the latest when its timeout elapses),
\* the loop and the fold go on, and the lock (tokio's RwLock is fair) is
\* eventually granted to a waiting emit
InitSignalFair ==
    /\ idType = "int" /\ hasPk = TRUE /\ reader = NoReader /\ softDelete = FALSE /\ hasSignals = TRUE
    /\ hasCache = FALSE
    /\ db = EmptyFn /\ tx = NoTx /\ cache = EmptyFn /\ pc = "idle" /\ op = NoOp
    /\ acc = <<>> /\ ret = NoRet /\ emitted = <<>>
    /\ SignalStart(DefaultConfig)
    /\ QueryIdle

SpecSignalFair ==
    /\ InitSignalFair /\ [][NextSignal]_vars
    /\ \A e \in EmitTasks :
         /\ WF_sigVars(\E i \in 1..MaxCallbacks : start_callback(e, i))
         /\ WF_sigVars(\E o \in Outcomes : finish_callback(e, o))
         /\ SF_sigVars(fold_begin(e))
         /\ WF_sigVars(fold_step(e))
         /\ WF_sigVars(fold_end(e))

\* the Query Builder on its own
InitQuery ==
    /\ StoreIdle /\ softDelete = FALSE
    /\ SignalStart(DefaultConfig)
    /\ \E shape \in FilterShapes : filters \in FilterLists(shape)
    /\ built = NoBuilt

SpecQuery == InitQuery /\ [][NextQuery]_vars

\* update_where assembling its statement
InitUpdateWhere ==
    /\ StoreIdle /\ softDelete \in BOOLEAN
    /\ SignalStart(DefaultConfig)
    /\ filters \in WhereLists
    /\ built = NoBuilt

SpecUpdateWhere == InitUpdateWhere /\ [][NextUpdateWhere]_vars

\* update_where from its arguments to the statement it sends
SpecUpdateBind == InitUpdateWhere /\ [][NextUpdateBind]_vars

(***************************************************************************)
(* Properties of the Store Engine (checked under SpecStore).               *)
(***************************************************************************)
Returned(name) == pc = "returned" /\ op.name = name

\* the call returned Ok and every cache call it made succeeded
CleanOk == ret.ok /\ ~ret.cacheErr

\* C1: update_many is all-or-nothing.  While the batch is being executed,
\* and when the call returns an error (a row update, begin or commit failed),
\* the committed rows are the rows the table held when the call was issued
\* and the call has handed no event to the Signal Bus.
C1_UpdateManyAllOrNothing ==
    [][ (op'.name = "update_many" /\ (pc' = "um_loop" \/ (pc' = "returned" /\ ~ret'.ok)))
          => (db' = db /\ emitted' = <<>>) ]_vars

\* C1 witness: update_many has returned an error after at least one row update
\* of the batch had been executed with a value the committed row does not hold.
C1_Witness ==
    /\ Returned("update_many") /\ ~ret.ok /\ hasSignals
    /\ \E i \in 1..Len(acc) : acc[i].updated.val # db[acc[i].id].val

\* C2: (claim as stated) with caching enabled, for every primary-key type,
\* once update(id, r) has succeeded the immediately following get_by_id(id)
\* returns the record as persisted after the update, never an older cached one.
C2_NoStaleReadAfterUpdate ==
    (Returned("update") /\ CleanOk /\ hasCache /\ op.data.id = op.id)
        => get_by_id_value(cache, db, op.id) = RowOf(db, op.id)

C4_UpdateManyInvalidates ==
    (Returned("update_many") /\ ret.ok /\ ret.recs # <<>> /\ hasCache)
        => /\ \A i \in 1..Len(ret.recs) :
                /\ WriteKey(ret.recs[i].id) \notin DOMAIN cache
                /\ get_by_id_value(cache, db, ret.recs[i].id) = RowOf(db, ret.recs[i].id)
           /\ QueryKeys(cache) = {}

\* C5: (claim as stated) after a successful delete, delete_many or
\* delete_where, on soft-delete and hard-delete types, the cache holds no
\* record key of a deleted id and no query-result key of the table.
C5_DeleteInvalidates ==
    (pc = "returned" /\ ret.ok /\ hasCache)
        => /\ (op.name = "delete" /\ ret.flag)
                => (WriteKey(op.id) \notin DOMAIN cache /\ QueryKeys(cache) = {})
           /\ (op.name \in {"delete_many", "delete_where"} /\ ret.ids # <<>>)
                => /\ \A i \in 1..Len(ret.ids) : WriteKey(ret.ids[i]) \notin DOMAIN cache
                   /\ QueryKeys(cache) = {}

(***************************************************************************)
(* Properties of the Signal Bus (checked under SpecSignal, the liveness    *)
(* part under SpecSignalFair).                                             *)
(***************************************************************************)
RECURSIVE TrailingFailures(_)
TrailingFailures(h) ==
    IF h = <<>> \/ ~h[Len(h)] THEN 0 ELSE 1 + TrailingFailures(SubSeq(h, 1, Len(h) - 1))

FailureCount(h) == Cardinality({i \in 1..Len(h) : h[i]})

FutIds(e) == {futs[e][i].id : i \in 1..Len(futs[e])}

InFlight(e) == epc[e] \in {"await", "fold"}

\* emit e has snapshotted callback c and not yet folded its result
Pending(e, c) ==
    \/ epc[e] = "await" /\ c \in FutIds(e)
    \/ epc[e] = "fold" /\ \E i \in foldAt[e]..Len(futs[e]) : futs[e][i].id = c

\* callback c was registered after emit e took its snapshot
RegisteredDuring(e, c) == InFlight(e) /\ c \in DOMAIN born /\ born[c] <= snapLeft[e]

\* C6: consecutive_failures of a registered callback is the number of failures
\* and timeouts folded since its last success, total_failures the number of
\* all of them; with eviction enabled, whenever the registry lock is free no
\* registered callback has reached max_consecutive_failures (the emit whose
\* result made it reach the limit removed it before releasing the lock), and
\* an emit that starts snapshots no callback that has reached the limit.
C6_FailureCountingAndEviction ==
    /\ [](\A c \in DOMAIN callbacks :
            /\ callbacks[c].consecutive_failures = TrailingFailures(hist[c])
            /\ callbacks[c].total_failures = FailureCount(hist[c])
            /\ (config.remove_failing_callbacks /\ lock = "free")
                 => TrailingFailures(hist[c]) < config.max_consecutive_failures)
    /\ [][\A e \in EmitTasks :
            (epc[e] = "idle" /\ epc'[e] = "await" /\ config.remove_failing_callbacks)
              => \A i \in 1..Len(futs'[e]) :
                    /\ futs'[e][i].id \in DOMAIN callbacks
                    /\ TrailingFailures(hist[futs'[e][i].id]) < config.max_consecutive_failures
         ]_vars

\* C6 witness: with max_consecutive_failures = 2, an emit is about to remove a
\* callback whose last two folded results were failures.
C6_Witness ==
    /\ config.remove_failing_callbacks /\ config.max_consecutive_failures = 2
    /\ \E e \in EmitTasks : \E c \in to_remove[e] :
         /\ epc[e] = "fold" /\ foldAt[e] > Len(results[e])
         /\ hist[c] = <<TRUE, TRUE>>

\* C7: while an emit awaits its callbacks it does not hold the registry lock,
\* so unless another emit is folding its results, get_stats, remove_callback
\* of any registered callback and add_callback (below the limit) can be taken
\* at once.
C7_LockFreeWhileCallbacksRun ==
    \A e \in EmitTasks :
        epc[e] = "await"
          => /\ lock # e
             /\ (\A e2 \in EmitTasks : epc[e2] # "fold")
                  => /\ can_get_stats
                     /\ \A id \in DOMAIN callbacks : ENABLED remove_callback(id)
                     /\ (next_id < MaxIds /\ Cardinality(DOMAIN callbacks) < config.max_callbacks)
                          => ENABLED add_callback

\* C7 witness: a callback of an emit is running and another callback has been
\* registered since that emit took its snapshot.
C7_Witness ==
    \E e \in EmitTasks :
        /\ epc[e] = "await"
        /\ \E i \in 1..Len(futs[e]) : futs[e][i].st = "running"
        /\ \E c \in DOMAIN callbacks : RegisteredDuring(e, c)

\* C8: (claim as stated) every callback of the snapshot starts without waiting
\* for another callback of the same emit: a future that has not been polled
\* yet can be polled at once.
C8_CallbacksStartConcurrently ==
    \A e \in EmitTasks : \A i \in 1..Len(futs[e]) :
        (epc[e] = "await" /\ futs[e][i].st = "new") => ENABLED start_callback(e, i)

\* C9: a callback registered after an emit took its snapshot is not in that
\* emit's snapshot, and the execution counter of a registered callback is the
\* number of emits started since its registration.
C9_LateRegistrationNotInEmit ==
    \A c \in DOMAIN callbacks :
        /\ callbacks[c].total_executions = born[c] - emitsLeft
        /\ \A e \in EmitTasks : RegisteredDuring(e, c) => c \notin FutIds(e)

\* C9 witness: a callback registered during an emit that has a callback in its
\* snapshot is later in the snapshot of another emit.
C9_Witness ==
    \E e \in EmitTasks, c \in DOMAIN callbacks :
        /\ RegisteredDuring(e, c) /\ futs[e] # <<>>
        /\ \E e2 \in EmitTasks \ {e} : c \in FutIds(e2)

\* C10: emit returns only when every future of its snapshot has resolved and
\* every result has been handled by the fold; for a registered callback, the
\* executions counted and not yet folded are those of the emits still in
\* flight; and an emit that awaits its callbacks eventually returns.
C10_EmitReturnsAfterAllCallbacks ==
    /\ [][\A e \in EmitTasks :
            (epc[e] # "idle" /\ epc'[e] = "idle")
              => /\ \A i \in 1..Len(futs[e]) : futs[e][i].st = "done"
                 /\ Len(results[e]) = Len(futs[e])
                 /\ foldAt[e] > Len(results[e])
         ]_vars
    /\ [](\A c \in DOMAIN callbacks :
            callbacks[c].total_executions
              = Len(hist[c]) + Cardinality({e \in EmitTasks : Pending(e, c)}))
    /\ \A e \in EmitTasks : (epc[e] = "await") ~> (epc[e] = "idle")

\* C10 witness: every emit has returned and a result has been folded into a
\* callback that is still registered.
C10_Witness ==
    /\ \A e \in EmitTasks : epc[e] = "idle"
    /\ emitsLeft < MaxEmits
    /\ \E c \in DOMAIN callbacks : hist[c] # <<>>

\* C11: the registry never holds more than max_callbacks callbacks; an
\* add_callback call returns an error exactly when the registry already holds
\* max_callbacks entries, and then leaves the registry and the id counter
\* unchanged; otherwise it succeeds and inserts one callback under a new id.
C11_MaxCallbacksEnforced ==
    /\ [](Cardinality(DOMAIN callbacks) <= config.max_callbacks)
    /\ [][add_callback =>
            /\ (add_ret' = "err") <=> (Cardinality(DOMAIN callbacks) >= config.max_callbacks)
            /\ (add_ret' = "err") => (callbacks' = callbacks /\ next_id' = next_id)
            /\ (add_ret' # "err")
                 => /\ add_ret' = "ok"
                    /\ next_id' = next_id + 1
                    /\ DOMAIN callbacks' = DOMAIN callbacks \cup {next_id}
                    /\ next_id \notin DOMAIN callbacks
         ]_vars

\* C11 witness: add_callback has returned an error on a registry that holds
\* max_callbacks callbacks.
C11_Witness ==
    /\ add_ret = "err"
    /\ Cardinality(DOMAIN callbacks) = config.max_callbacks

\* C12: whenever the registry lock is free, remove_callback of any registered
\* callback can be taken, whatever its failure counters; the step removes the
\* callback; an id enters the registry only as the new id of an add_callback,
\* so neither a fold nor anything else brings a removed callback back; a fold
\* turn for a callback that is gone leaves the registry unchanged; and an emit
\* that starts snapshots registered callbacks only.
C12_UnsubscribeIsFinal ==
    /\ [](lock = "free" => \A id \in DOMAIN callbacks : ENABLED remove_callback(id))
    /\ [](DOMAIN callbacks \subseteq 0..(next_id - 1))
    /\ [][ /\ \A id \in DOMAIN callbacks : remove_callback(id) => id \notin DOMAIN callbacks'
           /\ \A id \in DOMAIN callbacks' \ DOMAIN callbacks :
                 id = next_id /\ next_id' = next_id + 1
           /\ \A e \in EmitTasks :
                 /\ (epc[e] = "fold" /\ foldAt'[e] = foldAt[e] + 1
                       /\ results[e][foldAt[e]].id \notin DOMAIN callbacks)
                      => callbacks' = callbacks
                 /\ (epc[e] = "idle" /\ epc'[e] = "await")
                      => \A i \in 1..Len(futs'[e]) : futs'[e][i].id \in DOMAIN callbacks
         ]_vars

\* C12 witness: with eviction disabled, the fold of an emit has passed the
\* result of a callback that was unsubscribed while the emit was in flight.
C12_Witness ==
    /\ ~config.remove_failing_callbacks
    /\ \E e \in EmitTasks :
         /\ epc[e] = "fold"
         /\ \E i \in 1..(foldAt[e] - 1) : results[e][i].id \notin DOMAIN callbacks

\* C13 (as stated): every update_many that commits, on a store with a Signal
\* Bus, has handed exactly one Update event to the bus, carrying all records
\* of the batch, and nothing is handed over while the transaction is open.
C13_OneBatchEventAsStated ==
    /\ tx.open => emitted = <<>>
    /\ (Returned("update_many") /\ ret.ok /\ hasSignals)
         => /\ Len(emitted) = 1
            /\ emitted[1].type = "Update"
            /\ emitted[1].recs = ret.recs

\* C13 (amended): every update_many that commits a non-empty batch, on a
\* store with a Signal Bus, has handed exactly one Update event to the bus,
\* carrying all records of the batch; one that commits an empty batch has
\* handed none; nothing is handed over while the transaction is open.
C13_OneBatchEventAfterCommit ==
    /\ tx.open => emitted = <<>>
    /\ (Returned("update_many") /\ ret.ok /\ hasSignals)
         => IF ret.recs = <<>>
              THEN emitted = <<>>
              ELSE /\ Len(emitted) = 1
                   /\ emitted[1].type = "Update"
                   /\ emitted[1].recs = ret.recs

\* C13 witness: update_many has committed a batch of two row updates and
\* handed one event to the bus.
C13_Witness ==
    /\ Returned("update_many") /\ ret.ok /\ hasSignals
    /\ Len(ret.recs) = 2 /\ Len(emitted) = 1

(***************************************************************************)
(* Properties of the Query Builder (checked under SpecQuery).              *)
(***************************************************************************)
IsDigit(ch) == \E d \in 0..9 : DigitChar[d + 1] = ch
DigitVal(ch) == CHOOSE d \in 0..9 : DigitChar[d + 1] = ch

RECURSIVE ReadNumber(_, _)
\* the number written by the leading digits of a text, after the digits read so far
ReadNumber(text, sofar) ==
    IF text # <<>> /\ IsDigit(Head(text))
      THEN ReadNumber(Tail(text), 10 * sofar + DigitVal(Head(text)))
      ELSE sofar

\* the numbers of the placeholders of a statement, from left to right, as the
\* backend reads them: "$" followed by the longest run of digits
Placeholders(text) ==
    LET at == {p \in 1..Len(text) : text[p] = "$"}
        nth(k) == CHOOSE p \in at : Cardinality({q \in at : q <= p}) = k
    IN  [k \in 1..Cardinality(at) |->
           ReadNumber(SubSeq(text, nth(k) + 1, Len(text)), 0)]

OneTo(n) == [i \in 1..n |-> i]

\* the values a leaf binds: the value of a comparison, the elements of a list
BoundValues(c) ==
    IF c.operator \in ScalarOps /\ c.value.tag # "none" THEN <<c.value>>
    ELSE IF c.operator \in ArrayOps /\ c.value.tag = "array" THEN c.value.items
    ELSE <<>>

RECURSIVE LeafValues(_)
\* the bound values of the leaves of a filter list, depth first, left to right
LeafValues(fs) ==
    IF fs = <<>> THEN <<>>
    ELSE (IF Head(fs).kind = "Condition" THEN BoundValues(Head(fs))
                                         ELSE LeafValues(Head(fs).filters))
           \o LeafValues(Tail(fs))

WhereFilters == SubSeq(filters, 1, built.nwhere)
HavingFilters == SubSeq(filters, built.nwhere + 1, Len(filters))

\* C15: the WHERE clause a build returns contains exactly the placeholders
\* $1..$n from left to right, n being the number of returned parameters, and
\* the parameters are the leaf values in depth-first left-to-right order; the
\* HAVING clause and its parameters satisfy the same with their own numbering
\* from $1.
C15_PlaceholdersMatchParameters ==
    built.kind \in {"build", "build_full"}
      => /\ Placeholders(built.where_clause) = OneTo(Len(built.where_values))
         /\ built.where_values = LeafValues(WhereFilters)
         /\ Placeholders(built.having_clause) = OneTo(Len(built.having_values))
         /\ built.having_values = LeafValues(HavingFilters)

\* C15 witness: build_full has compiled a WHERE made of a leaf and a group
\* with at least three parameters and a HAVING with at least two.
C15_Witness ==
    /\ built.kind = "build_full" /\ built.nwhere = 2 /\ Len(filters) = 3
    /\ filters[2].kind = "Group"
    /\ Len(built.where_values) >= 3 /\ Len(built.having_values) >= 2

\* the first leaf of the compiled list is a comparison that carries no value
FirstLeafWithoutValue(ops) ==
    /\ built.kind = "build" /\ filters # <<>>
    /\ filters[1].kind = "Condition"
    /\ filters[1].operator \in ops
    /\ filters[1].value.tag = "none"

\* the text the first filter of the list was compiled to
FirstText(text) ==
    /\ Len(built.where_clause) >= 1 + Len(text)
    /\ SubSeq(built.where_clause, 2, 1 + Len(text)) = text

C14_WherePlaceholdersShifted ==
    built.kind = "update_where"
      => LET s == built.num_update_params
             P == Placeholders(built.where_clause)
         IN  /\ Placeholders(built.sql) = OneTo(s) \o [i \in 1..Len(P) |-> P[i] + s]
             /\ built.values = [i \in 1..s |-> SetValue(i)] \o built.where_values

\* the call is the second of two consecutive get_by_id calls
IsSecondRead(o) == o.name = "get_by_id" /\ "first" \in DOMAIN o

C18_FailClosed ==
    (hasCache /\ Returned("get_by_id"))
      => /\ ret.cacheErr => (~ret.ok /\ ret.err = "cache" /\ ret.recs = <<>>)
         /\ (ret.ok /\ ret.recs # <<>>)
              => /\ ReadKey(op.id) \in DOMAIN cache
                 /\ cache[ReadKey(op.id)] = ret.recs

\* C18 witness: a get_by_id of an existing row that was not in the cache has
\* returned after a cache call failed
C18_Witness ==
    /\ hasCache /\ Returned("get_by_id") /\ ret.cacheErr
    /\ op.id \in DOMAIN db
    /\ ReadKey(op.id) \notin op.pre

\* C19: on a soft-delete-enabled type a successful delete(id) of an active
\* row leaves the row in the table with its flag cleared and its other
\* columns untouched, count_active() is one less and count() is the same;
\* on a type without soft delete a successful delete(id) leaves no row with
\* that id, and count() is one less when there was one.
C19_SoftDeleteKeepsRow ==
    [][ (pc' = "returned" /\ op'.name = "delete" /\ ret'.ok)
          => LET id == op'.id
             IN  IF softDelete
                   THEN (id \in DOMAIN db /\ db[id].active)
                          => /\ id \in DOMAIN db'
                             /\ db'[id] = [db[id] EXCEPT !.active = FALSE]
                             /\ count_active(db') = count_active(db) - 1
                             /\ count(db') = count(db)
                             /\ ret'.flag
                   ELSE /\ id \notin DOMAIN db'
                        /\ id \in DOMAIN db => (count(db') = count(db) - 1 /\ ret'.flag) ]_vars

\* C19 witness: a soft delete of an active row has returned Ok
C19_Witness ==
    /\ softDelete /\ Returned("delete") /\ ret.ok
    /\ op.row # <<>> /\ op.row[1].active
    /\ op.id \in DOMAIN db /\ ~db[op.id].active

\* C20: (claim as stated) with a Signal Bus attached, a delete(id) of an
\* active row that returns Ok(true) has handed exactly one Delete event
\* carrying the id, and
\* a delete_many that returns a non-empty list of deleted ids has handed
\* exactly one Delete event carrying that list, whether or not the type
\* supports soft delete.
C20_DeleteEmitsOneEvent ==
    hasSignals
      => /\ (Returned("delete") /\ ret.ok /\ ret.flag /\ op.row[1].active)
              => emitted = <<Event("Delete", <<to_string_fast(idType, op.id)>>, <<>>, <<>>)>>
         /\ (Returned("delete_many") /\ ret.ok /\ ret.ids # <<>>)
              => emitted = <<Event("Delete", <<>>, <<>>, ret.ids)>>

\* the first leaf of the compiled list is op over the empty list
FirstLeafEmptyList(operator) ==
    /\ built.kind = "build" /\ filters # <<>>
    /\ filters[1].kind = "Condition"
    /\ filters[1].operator = operator
    /\ filters[1].value.tag = "array" /\ filters[1].value.items = <<>>

\* C27: in_values(field, []) compiles to the predicate 1=0, which no row
\* satisfies, and not_in_values(field, []) to the predicate 1=1, which every
\* row satisfies; neither contributes a parameter, and the leaves that follow
\* are numbered from $1 as if the leaf were not there.
C27_EmptyLists ==
    /\ FirstLeafEmptyList("In") => FirstText(<<"1=0">>)
    /\ FirstLeafEmptyList("NotIn") => FirstText(<<"1=1">>)
    /\ (FirstLeafEmptyList("In") \/ FirstLeafEmptyList("NotIn"))
         => /\ built.where_values = LeafValues(Tail(filters))
            /\ Placeholders(built.where_clause) = OneTo(Len(built.where_values))
            /\ Placeholders(built.where_clause)
                 = Placeholders(build_where_clause(Tail(filters)).sql)

\* C27 witness: not_in_values(f, []) has been compiled in front of a leaf
\* that binds a parameter.
C27_Witness ==
    /\ FirstLeafEmptyList("NotIn")
    /\ Len(filters) = 2 /\ built.where_values # <<>>

IsExecutorCall(o) ==
    o.name \in {"update_where_with_executor", "delete_where_with_executor"}

\* C21: update_where_with_executor and delete_where_with_executor hand no
\* event to the Signal Bus and leave the cache as it is, whether the
\* statement succeeds or fails; the statement changes the rows of the
\* supplied executor only (the open transaction's view, or the table when
\* the executor is the pool), and a failed statement changes nothing.
C21_ExecutorVariantsAreSilent ==
    [][ (pc' = "returned" /\ IsExecutorCall(op'))
          => /\ emitted' = <<>>
             /\ cache' = cache
             /\ IF op'.on = "tx" THEN db' = db /\ tx'.open ELSE tx' = tx
             /\ ~ret'.ok => (db' = db /\ tx' = tx) ]_vars

\* C21 witness: with a Signal Bus and a cache attached, a variant has updated
\* in a transaction a row whose record is cached.
C21_Witness ==
    /\ hasSignals /\ hasCache
    /\ Returned("update_where_with_executor") /\ op.on = "tx"
    /\ ret.ok /\ ret.recs # <<>>
    /\ ReadKey(ret.recs[1].id) \in DOMAIN cache
    /\ tx.rows # db

\* C22: (claim as stated) a successful update(id, record) changes no row
\* other than the row whose primary key is id, returns that row, and the
\* Update event's record id and the deleted cache key name the row that was
\* updated, also when the record's own primary-key field differs from id.
C22_UpdateTargetsIdArgument ==
    [][ (pc' = "returned" /\ op'.name = "update" /\ ret'.ok)
          => /\ \A other \in DOMAIN db \ {op'.id} : db'[other] = db[other]
             /\ ret'.recs[1].id = op'.id
             /\ hasSignals
                  => emitted'[1].record_id = <<to_string_fast(idType, ret'.recs[1].id)>>
             /\ (hasCache /\ ~ret'.cacheErr)
                  => WriteKey(ret'.recs[1].id) \notin DOMAIN cache' ]_vars

\* C24: with a Signal Bus attached, a create that returns Ok has inserted the
\* row and handed exactly one event: a Create event whose payload holds the
\* created record's field values and whose tags (also the payload's tags
\* entry) are the record's tags merged with the caller's tags, each tag
\* once; a create that returns an error has changed no row and handed no
\* event.
C24_CreateEmitsOneEvent ==
    [][ (hasSignals /\ pc' = "returned" /\ op'.name = "create")
          => IF ret'.ok
               THEN LET created == ret'.recs[1]
                        merged == Range(created.tags) \cup Range(op'.tags.tags)
                    IN  /\ created.id \notin DOMAIN db
                        /\ RowOf(db', created.id) = <<Rec(created.id, created)>>
                        /\ Len(emitted') = 1
                        /\ emitted'[1].type = "Create"
                        /\ \A f \in {"id", "val", "active"} :
                             emitted'[1].payload[f] = created[f]
                        /\ Range(emitted'[1].tags) = merged
                        /\ Cardinality(merged) = Len(emitted'[1].tags)
                        /\ emitted'[1].payload.tags = emitted'[1].tags
               ELSE emitted' = <<>> /\ db' = db ]_vars

\* C24 witness: a create called with a tag passed twice has returned Ok
C24_Witness ==
    /\ hasSignals /\ Returned("create") /\ ret.ok
    /\ op.tags.some /\ Len(op.tags.tags) = 2 /\ op.tags.tags[1] = op.tags.tags[2]
    /\ Len(emitted) = 1

\* C25: an update_where that returns Ok returns the updated rows, one record
\* per row its statement matched, holding the row's new values; with a Signal
\* Bus attached it has handed exactly one Update event that carries the
\* returned records and their number when at least one row was updated, and
\* no event when no row was.
C25_UpdateWhereEvent ==
    [][ (pc' = "returned" /\ op'.name = "update_where" /\ ret'.ok)
          => LET targets == UpdateWhereTargets(op'.query)
             IN  /\ Range(ret'.recs) = {Rec(id, db'[id]) : id \in targets}
                 /\ Len(ret'.recs) = Cardinality(targets)
                 /\ \A id \in targets : db'[id].val = op'.val
                 /\ hasSignals
                      => IF targets # {}
                           THEN /\ Len(emitted') = 1
                                /\ emitted'[1].type = "Update"
                                /\ emitted'[1].recs = ret'.recs
                                /\ emitted'[1].count = Len(ret'.recs)
                           ELSE emitted' = <<>> ]_vars

\* C25 witness: with a Signal Bus attached an update_where has updated two rows
C25_Witness ==
    /\ hasSignals /\ Returned("update_where") /\ ret.ok
    /\ Len(ret.recs) = 2 /\ Len(emitted) = 1

\* C26: (claim as stated) a delete_where that returns Ok returns the primary
\* keys of the rows its statement deleted, each once, or the empty list when
\* the table has no primary key; with a Signal Bus attached, when at least
\* one row was deleted it has handed exactly one Delete event whose id list
\* is the returned list and whose count is the number of deleted rows.
C26_DeleteWhereEvent ==
    [][ (pc' = "returned" /\ op'.name = "delete_where" /\ ret'.ok)
          => LET deleted == DeleteWhereTargets(op'.query)
             IN  /\ Range(ret'.ids) = IF hasPk THEN deleted ELSE {}
                 /\ Len(ret'.ids) = Cardinality(Range(ret'.ids))
                 /\ (hasSignals /\ deleted # {})
                      => /\ Len(emitted') = 1
                         /\ emitted'[1].type = "Delete"
                         /\ emitted'[1].ids = ret'.ids
                         /\ emitted'[1].count = Cardinality(deleted) ]_vars

\* C30: (claim as stated) a subscriber that calls get_by_id(id) while handling
\* the Update event of a successful update of the row id, and gets a result,
\* reads the record the update wrote, never an earlier one.
C30_SubscriberReadsUpdated ==
    (/\ pc = "update_emitted"
     /\ op.id = op.data.id
     /\ op.seen # <<>>
     /\ op.seen[1].ok)
      => op.seen[1].recs = <<op.updated>>

\* C28: callback ids are never reused.  The id counter never goes back, a
\* step registers at most one callback, and the id it gets is the counter's
\* value before the step, below the counter's value after it; so the ids of
\* any two registrations differ, whatever was removed in between by
\* unsubscribe, eviction, sweep or clear.
C28_IdsNeverReused ==
    [][ /\ next_id' >= next_id
        /\ \A id \in DOMAIN callbacks' \ DOMAIN callbacks :
             /\ DOMAIN callbacks' \ DOMAIN callbacks = {id}
             /\ id = next_id
             /\ id < next_id' ]_vars

\* C28 witness: with room for one callback only, the callback with id 1 is
\* registered: id 0 was registered and removed before it
C28_Witness ==
    /\ config.max_callbacks = 1
    /\ DOMAIN callbacks = {1}

\* C29: (claim as stated) once shutdown has returned, the cleanup task is
\* cancelled and sweeps no more, whenever after new shutdown was called.
C29_ShutdownCancelsCleanup ==
    spc = "returned"
      => /\ cleanup_task = "aborted"
         /\ ~ENABLED (\E old \in SUBSET DOMAIN callbacks : cleanup_sweep(old))

\* the result a create, update or delete returns is the persisted one
ReturnsPersisted ==
    /\ ret.ok
    /\ CASE op.name = "create" ->
              /\ ret.recs = <<CreatedRecord(op.data)>>
              /\ RowOf(db, op.data.id) = <<Rec(op.data.id, [val |-> op.data.val, active |-> TRUE])>>
         [] op.name = "update" ->
              /\ ret.recs = <<op.updated>>
              /\ RowOf(db, op.data.id) = <<op.updated>>
              /\ op.updated.val = op.data.val
         [] op.name = "delete" ->
              ret.flag /\ op.id \notin DOMAIN db

\* the fold of the caller's emit handles a failure or a time-out: nothing of
\* the store and no other callback changes, only the failed callback can be
\* queued for removal, and the error goes to the handler that is set
\* (always = whether the callback is still registered or not)
FailureStaysWithCallback(always) ==
    LET r == results[Caller][foldAt[Caller]]
    IN  (/\ epc[Caller] = "fold"
         /\ foldAt'[Caller] = foldAt[Caller] + 1
         /\ r.outcome # "ok")
          => /\ storeVars' = storeVars
             /\ \A c \in DOMAIN callbacks \ {r.id} :
                  c \in DOMAIN callbacks' /\ callbacks'[c] = callbacks[c]
             /\ DOMAIN callbacks' = DOMAIN callbacks
             /\ to_remove'[Caller] \ to_remove[Caller] \subseteq {r.id}
             /\ (error_handler /\ (always \/ r.id \in DOMAIN callbacks))
                  => handled'[Caller] =
                       Append(handled[Caller],
                              [callback_index |-> r.id, outcome |-> r.outcome])

\* emit returns to the call: the result and the table are what they were,
\* and the callbacks removed are callbacks that failed in this emit
EmitReturnKeepsResult ==
    (pc = "notifying" /\ pc' # "notifying")
      => /\ ret' = ret /\ db' = db
         /\ DOMAIN callbacks \ DOMAIN callbacks'
              \subseteq {results[Caller][i].id :
                           i \in {j \in 1..Len(results[Caller]) :
                                    results[Caller][j].outcome # "ok"}}

\* C23: (amended) a create, update or delete whose statement succeeded
\* returns the persisted result whatever its callbacks did: emit hands no
\* value back to the call.  A failure or time-out changes only the failed
\* callback's counters and registration, and it is passed to the error
\* handler when one is set and the callback is still registered when emit
\* handles its result.
C23_CallbackFailuresIsolated ==
    /\ []((pc = "notified" \/ (pc = "returned" /\ op.name = "update" /\ ret.ok))
            => ReturnsPersisted)
    /\ [][EmitReturnKeepsResult]_vars
    /\ [][FailureStaysWithCallback(FALSE)]_vars

\* C23 witness: a create has returned its record after a callback failed
\* and the failure was counted
C23_Witness ==
    /\ pc = "notified" /\ op.name = "create" /\ ret.ok
    /\ error_handler
    /\ \E c \in DOMAIN callbacks : callbacks[c].total_failures > 0

\* C23 as stated: every failure or time-out is passed to the error handler
\* that is set
C23_EveryFailureReported ==
    [][FailureStaysWithCallback(TRUE)]_vars

\* the callbacks a step with the registry lock free removes: in SpecSweep,
\* those the periodic sweep removes
Swept == IF lock = "free" /\ lock' = "free"
           THEN DOMAIN callbacks \ DOMAIN callbacks' ELSE {}

\* C31: the periodic sweep removes a callback only if its execution counter
\* is 0, no emit has taken its snapshot since the callback was registered,
\* and the callback was registered more than 24 hours ago.
C31_SweepRemovesOnlyNeverExecuted ==
    [][\A c \in Swept :
         /\ callbacks[c].total_executions = 0
         /\ born[c] = emitsLeft
         /\ hist[c] = <<>>
         /\ now - callbacks[c].created_at > Day]_vars

\* C31 witness: a callback executed by an emit is older than 24 hours and
\* registered, while a younger callback's id has been issued and swept
C31_Witness ==
    /\ lock = "free"
    /\ \E c \in DOMAIN callbacks :
         /\ callbacks[c].total_executions > 0
         /\ older_than_a_day(c)
         /\ next_id > Cardinality(DOMAIN callbacks)
         /\ ~config.remove_failing_callbacks

\* C40: (claim as stated) with auto_remove_inactive_callbacks = false the
\* sweep removes no callback, and with it enabled a never-executed callback
\* older than inactive_callback_threshold_seconds is removed by the sweep
\* that runs then.
C40_SweepHonoursConfig ==
    [][ /\ Swept # {} => config.auto_remove_inactive_callbacks
        /\ \A c \in DOMAIN callbacks :
             (/\ config.auto_remove_inactive_callbacks
              /\ callbacks[c].total_executions = 0
              /\ now - callbacks[c].created_at > config.inactive_callback_threshold_seconds
              /\ cleanup_loop)
               => c \notin DOMAIN callbacks' ]_vars

\* C38: with eviction-on-failure enabled, whenever the registry lock is free
\* the consecutive_failures counter of every registered callback is below
\* max_consecutive_failures, with overlapping emits, registrations and
\* unsubscribes.
C38_NoCallbackAtLimitWhenLockFree ==
    (config.remove_failing_callbacks /\ lock = "free")
      => \A c \in DOMAIN callbacks :
           callbacks[c].consecutive_failures < config.max_consecutive_failures

\* C38 witness: with the lock free and eviction enabled, a callback one
\* failure below the limit is in the snapshot of an emit that awaits its
\* callbacks, after another emit has evicted a callback
C38_Witness ==
    /\ config.remove_failing_callbacks /\ lock = "free"
    /\ config.max_consecutive_failures = 2
    /\ \E c \in DOMAIN callbacks :
         /\ callbacks[c].consecutive_failures = 1
         /\ \E e \in EmitTasks : epc[e] = "await" /\ c \in FutIds(e)
    /\ next_id > Cardinality(DOMAIN callbacks)

\* C39: for every registered callback consecutive_failures <= total_failures
\* <= total_executions, in every state; so what get_stats reports has
\* total_failures <= total_executions and failing_callbacks <= total_callbacks.
C39_CountersOrdered ==
    /\ \A c \in DOMAIN callbacks :
         /\ callbacks[c].consecutive_failures <= callbacks[c].total_failures
         /\ callbacks[c].total_failures <= callbacks[c].total_executions
    /\ get_stats.total_failures <= get_stats.total_executions
    /\ get_stats.failing_callbacks <= get_stats.total_callbacks

\* C39 witness: two overlapping emits have both counted a callback, one
\* failure is folded and the other emit still awaits it
C39_Witness ==
    \E c \in DOMAIN callbacks :
        /\ callbacks[c].total_executions = 2
        /\ callbacks[c].total_failures = 1
        /\ \E e \in EmitTasks : epc[e] = "await" /\ c \in FutIds(e)
        /\ get_stats.failing_callbacks = 1

\* C33: (claim as stated) a callback is recorded as timed out only when it
\* has had callback_timeout_seconds since it was started: a callback that
\* completes within that time is never recorded as timed out, however long
\* the other callbacks of the emit ran.
C33_TimeoutCountsFromStart ==
    [][\A e \in EmitTasks :
         (Len(results'[e]) = Len(results[e]) + 1
            /\ results'[e][Len(results'[e])].outcome = "timeout")
           => now - futs[e][Len(results'[e])].started >= callback_timeout_seconds]_vars

\* C35: (claim as stated) a delete_many that returns an error has left the
\* table as it was: no id of the batch is deleted or soft-deleted, on
\* soft-delete and hard-delete types alike.
C35_DeleteManyAllOrNothing ==
    [][(pc' = "returned" /\ op'.name = "delete_many" /\ ~ret'.ok) => db' = db]_vars

\* a row the table no longer shows: removed, or kept with its soft-delete
\* field false
AlreadyDeleted(id) == id \notin DOMAIN db \/ (softDelete /\ ~db[id].active)

\* C36: (claim as stated) deleting what is already deleted reports nothing:
\* delete(id) of an already deleted row returns false and emits no event, and
\* delete_where with a query whose rows are all already deleted returns no ids
\* and emits no event, on soft-delete and hard-delete types alike.
C36_DeleteIsIdempotent ==
    [][/\ (pc = "idle" /\ pc' = "returned" /\ op'.name = "delete" /\ ret'.ok
             /\ AlreadyDeleted(op'.id))
          => (ret'.flag = FALSE /\ emitted' = <<>>)
       /\ (pc = "idle" /\ pc' = "returned" /\ op'.name = "delete_where" /\ ret'.ok
             /\ \A id \in DeleteWhereTargets(op'.query) : AlreadyDeleted(id))
          => (ret'.ids = <<>> /\ emitted' = <<>>)]_vars

\* C37: (claim as stated) find with an empty query returns the set of rows that
\* list_all returns on the same table, and on a soft-delete-enabled type it
\* returns no soft-deleted row.
C37_FindEmptyIsListAll ==
    (pc = "returned" /\ op.name = "find" /\ op.query.field = "all" /\ ret.ok)
      => /\ {r.id : r \in Range(ret.recs)} = list_all_sql(db)
         /\ \A r \in Range(ret.recs) : r.active

\* C32: (claim as stated) once a get_by_id(id) and an update(id, ..) running
\* side by side have both completed, with every cache call of the update
\* successful, the cache holds no entry for id or the record the update wrote.
C32_NoRecordFromBeforeUpdate ==
    (/\ pc = "returned" /\ op.name = "update" /\ ret.ok /\ ~ret.cacheErr
     /\ reader.pc = "returned" /\ reader.id = <<op.id>>)
      => \/ ReadKey(op.id) \notin DOMAIN cache
         \/ cache[ReadKey(op.id)] = <<op.updated>>

\* placeholders of the SET clause of an update_where statement: the "$" before
\* the __updated_at__ assignment
SetPlaceholders(sql) ==
    LET upto == CHOOSE i \in 1..Len(sql) : sql[i] = ", __updated_at__ = NOW() "
    IN  Cardinality({i \in 1..upto : sql[i] = "$"})

\* C34: (claim as stated) whatever the query's UpdateSet (absent, empty or
\* not) and the data argument (absent or present), update_where either fails
\* before it sends a statement, or sends one whose SET clause has as many
\* placeholders as SET values are bound ahead of the WHERE values.
C34_SetClauseAndValuesSameMode ==
    built.kind = "update_where"
      => SetPlaceholders(built.sql) = Len(built.values) - Len(built.where_values)

====
